---- MODULE Spec2Model ----
(***************************************************************************)
(* FileVault: content-addressed file deduplication (Django REST viewset).  *)
(*                                                                         *)
(* State: the rows of the File table, the files of the media storage, and  *)
(* the position and local variables of every request being served.         *)
(* Requests (FileViewSet.create, FileViewSet.destroy) run concurrently,    *)
(* one per worker.  A step of the model is one visible effect of a         *)
(* request:                                                                *)
(*   - a query run outside or at the start of a transaction (get_object,   *)
(*     the content_hash lookup) reads the committed rows;                  *)
(*   - the writes of one transaction.atomic() block become visible         *)
(*     together, at its commit, or not at all when the block raises;       *)
(*   - a write to the media storage (FieldFile.save / FieldFile.delete)    *)
(*     is not transactional and is visible at once.                        *)
(* The unique index on content_hash, the PROTECT foreign key and the       *)
(* CHECK (reference_count >= 0) of PositiveIntegerField are enforced by    *)
(* the step that commits.                                                  *)
(***************************************************************************)
EXTENDS Integers, Sequences, FiniteSets, TLC

\* ------------------------------------------------------------------ bounds
NumProcs == 2
MaxUuid == 4
\* update requests (PUT, PATCH) that load a row, in one behaviour
MaxUpdates == 1
\* streams handed to compute_file_hash: length, byte values, chunk sizes
MaxLen == 3
MaxByte == 2
MaxChunk == 2
\* duplicates of the canonical row that is to be freed
MaxDups == 2
\* uploaded_at: days, and instants per day
MaxDay == 2
DayLen == 3

\* chunk_size default of compute_file_hash
DefaultChunkSize == 8192

Procs == 1..NumProcs

\* A nullable column or an absent local is None or Some(value).
None == <<>>
Some(v) == <<v>>
Val(o) == o[1]

\* ---------------------------------------------------------------- text
\* A text is the sequence of the code points of its characters.  Ascii
\* holds the printable characters of ASCII in the order of their code
\* points, from the space (32) to the tilde (126); the grave accent (96)
\* is written "U+0060".
Ascii ==
    <<" ", "!", "\"", "#", "$", "%", "&", "'", "(", ")", "*", "+", ",", "-",
     ".", "/", "0", "1", "2", "3", "4", "5", "6", "7", "8", "9", ":", ";",
     "<", "=", ">", "?", "@", "A", "B", "C", "D", "E", "F", "G", "H", "I",
     "J", "K", "L", "M", "N", "O", "P", "Q", "R", "S", "T", "U", "V", "W",
     "X", "Y", "Z", "[", "\\", "]", "^", "_", "U+0060", "a", "b", "c", "d",
     "e", "f", "g", "h", "i", "j", "k", "l", "m", "n", "o", "p", "q", "r",
     "s", "t", "u", "v", "w", "x", "y", "z", "{", "|", "}", "~">>

\* ord(ch) of a printable character of ASCII, and the text of a sequence of
\* such characters.
Ord(ch) == 31 + (CHOOSE i \in 1..95 : Ascii[i] = ch)
Text(s) == [i \in 1..Len(s) |-> Ord(s[i])]

\* The characters the code names.
Space == Ord(" ")
PlusSign == Ord("+")
Hyphen == Ord("-")
Dot == Ord(".")
Underscore == Ord("_")

\* U+3001, a character of a file name that is neither a letter nor a
\* number.
IdeographicComma == 12289

\* ------------------------------------------------------------ the uploads
\* max_length of File.file (the default of FileField) and of
\* File.original_filename.
FileMaxLength == 100
\* File.file_type: CharField(max_length=100)
FileTypeMaxLength == 100
OriginalFilenameMaxLength == 255

\* The content types of the uploads, character by character.
TextPlain == Text(<<"t", "e", "x", "t", "/", "p", "l", "a", "i", "n">>)
ApplicationPdf ==
    Text(<<"a", "p", "p", "l", "i", "c", "a", "t", "i", "o", "n", "/", "p", "d", "f">>)

\* The character ProhibitNullCharactersValidator looks for.
NullCharacter == 0

\* request.FILES['file']: name, content_type, bytes; a name is written
\* character by character.  a.txt and b.pdf share their bytes under
\* different names and types.  The names without a dot have one character,
\* 100 (the longest File.file allows: the name generated for the storage
\* cannot be cut to 100) and 101 (refused by the serializer); the first and
\* the last share their bytes.  d.txt has the bytes of a.txt and no content
\* type; e.txt is an empty file; f.txt has a content type one character
\* longer than File.file_type allows; g.txt has a null character in its
\* content type and bytes of its own; the name that is one space is blank
\* once trimmed and comes with the bytes of a.txt; the last name has an
\* extension of 83 ideographic commas, of which get_valid_filename keeps
\* none, and the bytes of g.txt.
Uploads ==
    { [name |-> Text(<<"a", ".", "t", "x", "t">>), content_type |-> TextPlain,
       content |-> <<1, 2>>],
      [name |-> Text(<<"b", ".", "p", "d", "f">>), content_type |-> ApplicationPdf,
       content |-> <<1, 2>>],
      [name |-> Text(<<"c">>), content_type |-> TextPlain, content |-> <<3>>],
      [name |-> Text(<<"d", ".", "t", "x", "t">>), content_type |-> <<>>,
       content |-> <<1, 2>>],
      [name |-> Text(<<"e", ".", "t", "x", "t">>), content_type |-> TextPlain,
       content |-> <<>>],
      [name |-> Text(<<"f", ".", "t", "x", "t">>),
       content_type |-> [i \in 1..(FileTypeMaxLength + 1) |-> Ord("t")],
       content |-> <<3>>],
      [name |-> Text(<<"g", ".", "t", "x", "t">>),
       content_type |-> Text(<<"t">>) \o <<NullCharacter>>, content |-> <<4>>],
      [name |-> Text(<<" ">>), content_type |-> TextPlain, content |-> <<1, 2>>],
      [name |-> [i \in 1..FileMaxLength |-> Ord("m")], content_type |-> TextPlain,
       content |-> <<2>>],
      [name |-> [i \in 1..(FileMaxLength + 1) |-> Ord("n")], content_type |-> TextPlain,
       content |-> <<3>>],
      [name |-> Text(<<"x", ".">>) \o [i \in 1..83 |-> IdeographicComma],
       content_type |-> TextPlain, content |-> <<4>>] }

\* ------------------------------------------------------------ the hasher
Min(a, b) == IF a <= b THEN a ELSE b

\* file_obj.read(chunk_size) at position pos: the bytes read.
ReadChunk(content, pos, chunk_size) ==
    SubSeq(content, pos + 1, Min(Len(content), pos + chunk_size))

\* The while loop of compute_file_hash: the bytes fed to sha256.update, in
\* order, reading from position pos until read() returns nothing.
RECURSIVE HashLoop(_, _, _, _)
HashLoop(content, pos, chunk_size, fed) ==
    LET chunk == ReadChunk(content, pos, chunk_size)
    IN  IF chunk = <<>> THEN fed
        ELSE HashLoop(content, pos + Len(chunk), chunk_size, fed \o chunk)

\* sha256(...).hexdigest(): SHA-256 is modelled as collision free, a digest
\* is named by the bytes it digests.
HexDigest(fed) == [sha256 |-> fed]

\* Mutant of compute_file_hash: no seek(0) before the loop and no
\* seek(original_position) after it.
compute_file_hash_no_seek(content, pos, chunk_size) ==
    LET fed == HashLoop(content, pos, chunk_size, <<>>)
    IN  [digest |-> HexDigest(fed), position |-> pos + Len(fed)]

\* compute_file_hash(file_obj, chunk_size) for a stream at position pos:
\* tell(), seek(0), the loop, seek(original_position).
compute_file_hash(content, pos, chunk_size) ==
    LET original_position == pos
    IN  [digest |-> HexDigest(HashLoop(content, 0, chunk_size, <<>>)),
         position |-> original_position]

\* ------------------------------------------------------------ get_queryset
\* uploaded_at and the date bounds are instants: day * DayLen + time of day.
\* datetime.min.time() is time 0 of a day, datetime.max.time() its last
\* instant.
At(day, tod) == day * DayLen + tod

\* The lower-case form of one character: icontains compares the two texts
\* with their ASCII letters in one case; every other character is kept.
Lower(ch) == IF ch \in 65..90 THEN ch + 32 ELSE ch

LowerAll(s) == [i \in 1..Len(s) |-> Lower(s[i])]

\* original_filename__icontains=s: s occurs in text, case ignored.
icontains(text, s) ==
    LET folded == LowerAll(text)
        sought == LowerAll(s)
    IN  \E i \in 1..(Len(folded) - Len(sought) + 1) :
            SubSeq(folded, i, i + Len(sought) - 1) = sought

\* Mutant of gte: a strict bound.
gt(a, b) == a > b

\* size__gte / uploaded_at__gte and size__lte / uploaded_at__lte.
gte(a, b) == a >= b
lte(a, b) == a <= b

\* int(s) of Python for a string s: surrounding whitespace is dropped, a sign
\* is allowed, then decimal digits, single underscores between digits.
\* Some(n), or None where int raises ValueError.
\* The decimal digits int() reads are those of Unicode (category Nd, as of
\* Unicode 14), which come in runs of ten, from the digit zero to the digit
\* nine: DigitZeros holds the code point of every digit zero.
DigitZeros ==
    {48, 1632, 1776, 1984, 2406, 2534, 2662, 2790, 2918, 3046, 3174, 3302,
     3430, 3558, 3664, 3792, 3872, 4160, 4240, 6112, 6160, 6470, 6608,
     6784, 6800, 6992, 7088, 7232, 7248, 42528, 43216, 43264, 43472, 43504,
     43600, 44016, 65296, 66720, 68912, 69734, 69872, 69942, 70096, 70384,
     70736, 70864, 71248, 71360, 71472, 71904, 72016, 72784, 73040, 73120,
     92768, 92864, 93008, 120782, 120792, 120802, 120812, 120822, 123200,
     123632, 125264, 130032}
IsDigit(ch) ==
    IF ch < 128 THEN 48 <= ch /\ ch <= 57
    ELSE \E zero \in DigitZeros : zero <= ch /\ ch <= zero + 9
DigitValue(ch) ==
    IF ch < 128 THEN ch - 48
    ELSE ch - (CHOOSE zero \in DigitZeros : zero <= ch /\ ch <= zero + 9)

\* The whitespace int() drops around the digits: tab, line feed, vertical
\* tab, form feed, carriage return, space, and the white space of Unicode
\* outside ASCII.
Whitespace ==
    {9, 10, 11, 12, 13, 32,
     133, 160, 5760, 8192, 8193, 8194, 8195, 8196, 8197, 8198, 8199, 8200,
     8201, 8202, 8232, 8233, 8239, 8287, 12288}

\* The separators U+001C..U+001F, which str.strip() drops as well and int()
\* does not.
Separators == {28, 29, 30, 31}

\* s without the characters of chars at its two ends.
RECURSIVE StripOf(_, _)
StripOf(s, chars) ==
    IF s = <<>> THEN s
    ELSE IF Head(s) \in chars THEN StripOf(Tail(s), chars)
    ELSE IF s[Len(s)] \in chars THEN StripOf(SubSeq(s, 1, Len(s) - 1), chars)
    ELSE s

\* The text int() reads.
Strip(s) == StripOf(s, Whitespace)

\* str.strip(), applied by CharField (trim_whitespace) to a name.
Trimmed(s) == StripOf(s, Whitespace \cup Separators)

RECURSIVE Decimal(_, _)
Decimal(s, acc) ==
    IF s = <<>> THEN acc
    ELSE IF Head(s) = Underscore THEN Decimal(Tail(s), acc)
    ELSE Decimal(Tail(s), 10 * acc + DigitValue(Head(s)))

WellFormedDigits(s) ==
    /\ s # <<>>
    /\ \A i \in 1..Len(s) : IsDigit(s[i]) \/ s[i] = Underscore
    /\ IsDigit(s[1])
    /\ IsDigit(s[Len(s)])
    /\ \A i \in 1..(Len(s) - 1) : ~(s[i] = Underscore /\ s[i + 1] = Underscore)

\* sys.get_int_max_str_digits(), the default of Python 3.11 (and of every
\* release since 3.10.7): int() raises ValueError for a text of more digits,
\* the leading zeros counted, the sign and the underscores not.
IntMaxStrDigits == 4300

int(s) ==
    LET t == Strip(s)
        signed == t # <<>> /\ Head(t) \in {PlusSign, Hyphen}
        body == IF signed THEN Tail(t) ELSE t
        digits == Cardinality({i \in 1..Len(body) : body[i] # Underscore})
    IN  IF ~WellFormedDigits(body) THEN None
        ELSE IF digits > IntMaxStrDigits THEN None
        ELSE IF signed /\ Head(t) = Hyphen THEN Some(0 - Decimal(body, 0))
        ELSE Some(Decimal(body, 0))

\* A date parameter is the text the client sent, by its shape:
\*   blank     the empty string
\*   text      matches neither date nor datetime ('invalid-date')
\*   date      YYYY-MM-DD; the day exists when it is in 1..MaxDay
\*   datetime  YYYY-MM-DDTHH:MM...; the time exists when it is below DayLen
DateParam(form, day, tod) == [form |-> form, day |-> day, tod |-> tod]

Raised == [raises |-> TRUE, value |-> None]
Returned(v) == [raises |-> FALSE, value |-> v]

\* django.utils.dateparse.parse_datetime.  Before Django 4.0 a value with
\* no time part matches nothing and None is returned; since 4.0
\* datetime.fromisoformat is tried first, which reads a date as its midnight
\* (from_iso = TRUE).  A well-formed value naming no instant raises
\* ValueError.
parse_datetime(v, from_iso) ==
    IF v.form = "datetime"
    THEN IF v.day \in 1..MaxDay /\ v.tod \in 0..(DayLen - 1)
         THEN Returned(Some(At(v.day, v.tod)))
         ELSE Raised
    ELSE IF v.form = "date" /\ from_iso /\ v.day \in 1..MaxDay
    THEN Returned(Some(At(v.day, 0)))
    ELSE Returned(None)

\* django.utils.dateparse.parse_date: the day, None when the value is no
\* date, ValueError when it is well formed and names no day.
parse_date(v) ==
    IF v.form = "date"
    THEN IF v.day \in 1..MaxDay THEN Returned(Some(v.day)) ELSE Raised
    ELSE Returned(None)

\* Lines 70-77 and 86-93: the instant of a date bound; fallback_tod is the
\* time of datetime.min.time() or datetime.max.time().
DateBound(v, from_iso, fallback_tod) ==
    LET datetime_obj == parse_datetime(v, from_iso)
    IN  IF datetime_obj.raises THEN Raised
        ELSE IF datetime_obj.value = None
        THEN LET date_obj == parse_date(v)
             IN  IF date_obj.raises \/ date_obj.value = None THEN Raised
                 ELSE Returned(Some(At(Val(date_obj.value), fallback_tod)))
        ELSE datetime_obj

\* raise ValidationError({field: message}), and the queryset returned.
ValidationError(field, message) ==
    [error |-> Some([field |-> field, message |-> message]), queryset |-> {}]
Queryset(rows) == [error |-> None, queryset |-> rows]

\* The comparison of a field lookup, by its name.
Lookup(lookup, a, b) == IF lookup = "gte" THEN gte(a, b) ELSE lte(a, b)

\* Lines 51-65: one size bound; lookup is gte or lte.
SizeFilter(rows, field, value, lookup) ==
    IF value = None \/ Val(value) = <<>> THEN Queryset(rows)
    ELSE LET size_int == int(Val(value))
         IN  IF size_int = None
             THEN ValidationError(field, "Must be a valid integer")
             ELSE Queryset({r \in rows : Lookup(lookup, r.size, Val(size_int))})

\* Lines 67-97: one date bound.
DateFilter(rows, field, value, from_iso, fallback_tod, lookup) ==
    IF value = None \/ Val(value).form = "blank" THEN Queryset(rows)
    ELSE LET datetime_obj == DateBound(Val(value), from_iso, fallback_tod)
         IN  IF datetime_obj.raises
             THEN ValidationError(field, "Must be a valid ISO 8601 date (YYYY-MM-DD)")
             ELSE Queryset({r \in rows :
                               Lookup(lookup, r.uploaded_at, Val(datetime_obj.value))})

\* FileViewSet.get_queryset, lines 39-99.  A parameter that is missing or
\* empty is falsy and adds no filter.
get_queryset(rows, query_params, from_iso) ==
    LET search == query_params.search
        file_type == query_params.file_type
        by_search ==
            IF search # None /\ Val(search) # <<>>
            THEN {r \in rows : icontains(r.original_filename, Val(search))}
            ELSE rows
        by_type ==
            IF file_type # None /\ Val(file_type) # <<>>
            THEN {r \in by_search : r.file_type = Val(file_type)}
            ELSE by_search
        by_size_min == SizeFilter(by_type, "size_min", query_params.size_min, "gte")
        by_size_max ==
            SizeFilter(by_size_min.queryset, "size_max", query_params.size_max, "lte")
        by_after ==
            DateFilter(by_size_max.queryset, "uploaded_after",
                       query_params.uploaded_after, from_iso, 0, "gte")
        by_before ==
            DateFilter(by_after.queryset, "uploaded_before",
                       query_params.uploaded_before, from_iso, DayLen - 1, "lte")
    IN  IF by_size_min.error # None THEN by_size_min
        ELSE IF by_size_max.error # None THEN by_size_max
        ELSE IF by_after.error # None THEN by_after
        ELSE by_before

\* ------------------------------------------------------------- the model
\* file_upload_path(instance, filename): uploads/<uuid4>.<ext>, where ext
\* is filename.split('.')[-1]: the text after the last dot, the whole name
\* when it has no dot.
file_upload_path(filename, uuid) ==
    LET dots == {i \in 1..Len(filename) : filename[i] = Dot}
        last == CHOOSE i \in dots : \A j \in dots : j <= i
        ext == IF dots = {} THEN filename
               ELSE SubSeq(filename, last + 1, Len(filename))
    IN  [dir |-> "uploads", uuid |-> uuid, ext |-> ext]

\* The lengths that make up a stored name: "uploads/", str(uuid.uuid4()),
\* and the "_" with seven random characters that
\* Storage.get_alternative_name puts after the root of a name.
DirLength == 8
UuidLength == 36
AlternativeLength == 8

\* The characters outside ASCII the pattern \w matches, as ranges of code
\* points, the two ends included: the letters and the numbers of Unicode
\* (str.isalnum(), as of Unicode 14).
WordRanges ==
    {<<170, 170>>, <<178, 179>>, <<181, 181>>, <<185, 186>>, <<188, 190>>,
     <<192, 214>>, <<216, 246>>, <<248, 705>>, <<710, 721>>, <<736, 740>>,
     <<748, 748>>, <<750, 750>>, <<880, 884>>, <<886, 887>>, <<890, 893>>,
     <<895, 895>>, <<902, 902>>, <<904, 906>>, <<908, 908>>, <<910, 929>>,
     <<931, 1013>>, <<1015, 1153>>, <<1162, 1327>>, <<1329, 1366>>,
     <<1369, 1369>>, <<1376, 1416>>, <<1488, 1514>>, <<1519, 1522>>,
     <<1568, 1610>>, <<1632, 1641>>, <<1646, 1647>>, <<1649, 1747>>,
     <<1749, 1749>>, <<1765, 1766>>, <<1774, 1788>>, <<1791, 1791>>,
     <<1808, 1808>>, <<1810, 1839>>, <<1869, 1957>>, <<1969, 1969>>,
     <<1984, 2026>>, <<2036, 2037>>, <<2042, 2042>>, <<2048, 2069>>,
     <<2074, 2074>>, <<2084, 2084>>, <<2088, 2088>>, <<2112, 2136>>,
     <<2144, 2154>>, <<2160, 2183>>, <<2185, 2190>>, <<2208, 2249>>,
     <<2308, 2361>>, <<2365, 2365>>, <<2384, 2384>>, <<2392, 2401>>,
     <<2406, 2415>>, <<2417, 2432>>, <<2437, 2444>>, <<2447, 2448>>,
     <<2451, 2472>>, <<2474, 2480>>, <<2482, 2482>>, <<2486, 2489>>,
     <<2493, 2493>>, <<2510, 2510>>, <<2524, 2525>>, <<2527, 2529>>,
     <<2534, 2545>>, <<2548, 2553>>, <<2556, 2556>>, <<2565, 2570>>,
     <<2575, 2576>>, <<2579, 2600>>, <<2602, 2608>>, <<2610, 2611>>,
     <<2613, 2614>>, <<2616, 2617>>, <<2649, 2652>>, <<2654, 2654>>,
     <<2662, 2671>>, <<2674, 2676>>, <<2693, 2701>>, <<2703, 2705>>,
     <<2707, 2728>>, <<2730, 2736>>, <<2738, 2739>>, <<2741, 2745>>,
     <<2749, 2749>>, <<2768, 2768>>, <<2784, 2785>>, <<2790, 2799>>,
     <<2809, 2809>>, <<2821, 2828>>, <<2831, 2832>>, <<2835, 2856>>,
     <<2858, 2864>>, <<2866, 2867>>, <<2869, 2873>>, <<2877, 2877>>,
     <<2908, 2909>>, <<2911, 2913>>, <<2918, 2927>>, <<2929, 2935>>,
     <<2947, 2947>>, <<2949, 2954>>, <<2958, 2960>>, <<2962, 2965>>,
     <<2969, 2970>>, <<2972, 2972>>, <<2974, 2975>>, <<2979, 2980>>,
     <<2984, 2986>>, <<2990, 3001>>, <<3024, 3024>>, <<3046, 3058>>,
     <<3077, 3084>>, <<3086, 3088>>, <<3090, 3112>>, <<3114, 3129>>,
     <<3133, 3133>>, <<3160, 3162>>, <<3165, 3165>>, <<3168, 3169>>,
     <<3174, 3183>>, <<3192, 3198>>, <<3200, 3200>>, <<3205, 3212>>,
     <<3214, 3216>>, <<3218, 3240>>, <<3242, 3251>>, <<3253, 3257>>,
     <<3261, 3261>>, <<3293, 3294>>, <<3296, 3297>>, <<3302, 3311>>,
     <<3313, 3314>>, <<3332, 3340>>, <<3342, 3344>>, <<3346, 3386>>,
     <<3389, 3389>>, <<3406, 3406>>, <<3412, 3414>>, <<3416, 3425>>,
     <<3430, 3448>>, <<3450, 3455>>, <<3461, 3478>>, <<3482, 3505>>,
     <<3507, 3515>>, <<3517, 3517>>, <<3520, 3526>>, <<3558, 3567>>,
     <<3585, 3632>>, <<3634, 3635>>, <<3648, 3654>>, <<3664, 3673>>,
     <<3713, 3714>>, <<3716, 3716>>, <<3718, 3722>>, <<3724, 3747>>,
     <<3749, 3749>>, <<3751, 3760>>, <<3762, 3763>>, <<3773, 3773>>,
     <<3776, 3780>>, <<3782, 3782>>, <<3792, 3801>>, <<3804, 3807>>,
     <<3840, 3840>>, <<3872, 3891>>, <<3904, 3911>>, <<3913, 3948>>,
     <<3976, 3980>>, <<4096, 4138>>, <<4159, 4169>>, <<4176, 4181>>,
     <<4186, 4189>>, <<4193, 4193>>, <<4197, 4198>>, <<4206, 4208>>,
     <<4213, 4225>>, <<4238, 4238>>, <<4240, 4249>>, <<4256, 4293>>,
     <<4295, 4295>>, <<4301, 4301>>, <<4304, 4346>>, <<4348, 4680>>,
     <<4682, 4685>>, <<4688, 4694>>, <<4696, 4696>>, <<4698, 4701>>,
     <<4704, 4744>>, <<4746, 4749>>, <<4752, 4784>>, <<4786, 4789>>,
     <<4792, 4798>>, <<4800, 4800>>, <<4802, 4805>>, <<4808, 4822>>,
     <<4824, 4880>>, <<4882, 4885>>, <<4888, 4954>>, <<4969, 4988>>,
     <<4992, 5007>>, <<5024, 5109>>, <<5112, 5117>>, <<5121, 5740>>,
     <<5743, 5759>>, <<5761, 5786>>, <<5792, 5866>>, <<5870, 5880>>,
     <<5888, 5905>>, <<5919, 5937>>, <<5952, 5969>>, <<5984, 5996>>,
     <<5998, 6000>>, <<6016, 6067>>, <<6103, 6103>>, <<6108, 6108>>,
     <<6112, 6121>>, <<6128, 6137>>, <<6160, 6169>>, <<6176, 6264>>,
     <<6272, 6276>>, <<6279, 6312>>, <<6314, 6314>>, <<6320, 6389>>,
     <<6400, 6430>>, <<6470, 6509>>, <<6512, 6516>>, <<6528, 6571>>,
     <<6576, 6601>>, <<6608, 6618>>, <<6656, 6678>>, <<6688, 6740>>,
     <<6784, 6793>>, <<6800, 6809>>, <<6823, 6823>>, <<6917, 6963>>,
     <<6981, 6988>>, <<6992, 7001>>, <<7043, 7072>>, <<7086, 7141>>,
     <<7168, 7203>>, <<7232, 7241>>, <<7245, 7293>>, <<7296, 7304>>,
     <<7312, 7354>>, <<7357, 7359>>, <<7401, 7404>>, <<7406, 7411>>,
     <<7413, 7414>>, <<7418, 7418>>, <<7424, 7615>>, <<7680, 7957>>,
     <<7960, 7965>>, <<7968, 8005>>, <<8008, 8013>>, <<8016, 8023>>,
     <<8025, 8025>>, <<8027, 8027>>, <<8029, 8029>>, <<8031, 8061>>,
     <<8064, 8116>>, <<8118, 8124>>, <<8126, 8126>>, <<8130, 8132>>,
     <<8134, 8140>>, <<8144, 8147>>, <<8150, 8155>>, <<8160, 8172>>,
     <<8178, 8180>>, <<8182, 8188>>, <<8304, 8305>>, <<8308, 8313>>,
     <<8319, 8329>>, <<8336, 8348>>, <<8450, 8450>>, <<8455, 8455>>,
     <<8458, 8467>>, <<8469, 8469>>, <<8473, 8477>>, <<8484, 8484>>,
     <<8486, 8486>>, <<8488, 8488>>, <<8490, 8493>>, <<8495, 8505>>,
     <<8508, 8511>>, <<8517, 8521>>, <<8526, 8526>>, <<8528, 8585>>,
     <<9312, 9371>>, <<9450, 9471>>, <<10102, 10131>>, <<11264, 11492>>,
     <<11499, 11502>>, <<11506, 11507>>, <<11517, 11517>>,
     <<11520, 11557>>, <<11559, 11559>>, <<11565, 11565>>,
     <<11568, 11623>>, <<11631, 11631>>, <<11648, 11670>>,
     <<11680, 11686>>, <<11688, 11694>>, <<11696, 11702>>,
     <<11704, 11710>>, <<11712, 11718>>, <<11720, 11726>>,
     <<11728, 11734>>, <<11736, 11742>>, <<11823, 11823>>,
     <<12293, 12295>>, <<12321, 12329>>, <<12337, 12341>>,
     <<12344, 12348>>, <<12353, 12438>>, <<12445, 12447>>,
     <<12449, 12538>>, <<12540, 12543>>, <<12549, 12591>>,
     <<12593, 12686>>, <<12690, 12693>>, <<12704, 12735>>,
     <<12784, 12799>>, <<12832, 12841>>, <<12872, 12879>>,
     <<12881, 12895>>, <<12928, 12937>>, <<12977, 12991>>,
     <<13312, 19903>>, <<19968, 42124>>, <<42192, 42237>>,
     <<42240, 42508>>, <<42512, 42539>>, <<42560, 42606>>,
     <<42623, 42653>>, <<42656, 42735>>, <<42775, 42783>>,
     <<42786, 42888>>, <<42891, 42954>>, <<42960, 42961>>,
     <<42963, 42963>>, <<42965, 42969>>, <<42994, 43009>>,
     <<43011, 43013>>, <<43015, 43018>>, <<43020, 43042>>,
     <<43056, 43061>>, <<43072, 43123>>, <<43138, 43187>>,
     <<43216, 43225>>, <<43250, 43255>>, <<43259, 43259>>,
     <<43261, 43262>>, <<43264, 43301>>, <<43312, 43334>>,
     <<43360, 43388>>, <<43396, 43442>>, <<43471, 43481>>,
     <<43488, 43492>>, <<43494, 43518>>, <<43520, 43560>>,
     <<43584, 43586>>, <<43588, 43595>>, <<43600, 43609>>,
     <<43616, 43638>>, <<43642, 43642>>, <<43646, 43695>>,
     <<43697, 43697>>, <<43701, 43702>>, <<43705, 43709>>,
     <<43712, 43712>>, <<43714, 43714>>, <<43739, 43741>>,
     <<43744, 43754>>, <<43762, 43764>>, <<43777, 43782>>,
     <<43785, 43790>>, <<43793, 43798>>, <<43808, 43814>>,
     <<43816, 43822>>, <<43824, 43866>>, <<43868, 43881>>,
     <<43888, 44002>>, <<44016, 44025>>, <<44032, 55203>>,
     <<55216, 55238>>, <<55243, 55291>>, <<63744, 64109>>,
     <<64112, 64217>>, <<64256, 64262>>, <<64275, 64279>>,
     <<64285, 64285>>, <<64287, 64296>>, <<64298, 64310>>,
     <<64312, 64316>>, <<64318, 64318>>, <<64320, 64321>>,
     <<64323, 64324>>, <<64326, 64433>>, <<64467, 64829>>,
     <<64848, 64911>>, <<64914, 64967>>, <<65008, 65019>>,
     <<65136, 65140>>, <<65142, 65276>>, <<65296, 65305>>,
     <<65313, 65338>>, <<65345, 65370>>, <<65382, 65470>>,
     <<65474, 65479>>, <<65482, 65487>>, <<65490, 65495>>,
     <<65498, 65500>>, <<65536, 65547>>, <<65549, 65574>>,
     <<65576, 65594>>, <<65596, 65597>>, <<65599, 65613>>,
     <<65616, 65629>>, <<65664, 65786>>, <<65799, 65843>>,
     <<65856, 65912>>, <<65930, 65931>>, <<66176, 66204>>,
     <<66208, 66256>>, <<66273, 66299>>, <<66304, 66339>>,
     <<66349, 66378>>, <<66384, 66421>>, <<66432, 66461>>,
     <<66464, 66499>>, <<66504, 66511>>, <<66513, 66517>>,
     <<66560, 66717>>, <<66720, 66729>>, <<66736, 66771>>,
     <<66776, 66811>>, <<66816, 66855>>, <<66864, 66915>>,
     <<66928, 66938>>, <<66940, 66954>>, <<66956, 66962>>,
     <<66964, 66965>>, <<66967, 66977>>, <<66979, 66993>>,
     <<66995, 67001>>, <<67003, 67004>>, <<67072, 67382>>,
     <<67392, 67413>>, <<67424, 67431>>, <<67456, 67461>>,
     <<67463, 67504>>, <<67506, 67514>>, <<67584, 67589>>,
     <<67592, 67592>>, <<67594, 67637>>, <<67639, 67640>>,
     <<67644, 67644>>, <<67647, 67669>>, <<67672, 67702>>,
     <<67705, 67742>>, <<67751, 67759>>, <<67808, 67826>>,
     <<67828, 67829>>, <<67835, 67867>>, <<67872, 67897>>,
     <<67968, 68023>>, <<68028, 68047>>, <<68050, 68096>>,
     <<68112, 68115>>, <<68117, 68119>>, <<68121, 68149>>,
     <<68160, 68168>>, <<68192, 68222>>, <<68224, 68255>>,
     <<68288, 68295>>, <<68297, 68324>>, <<68331, 68335>>,
     <<68352, 68405>>, <<68416, 68437>>, <<68440, 68466>>,
     <<68472, 68497>>, <<68521, 68527>>, <<68608, 68680>>,
     <<68736, 68786>>, <<68800, 68850>>, <<68858, 68899>>,
     <<68912, 68921>>, <<69216, 69246>>, <<69248, 69289>>,
     <<69296, 69297>>, <<69376, 69415>>, <<69424, 69445>>,
     <<69457, 69460>>, <<69488, 69505>>, <<69552, 69579>>,
     <<69600, 69622>>, <<69635, 69687>>, <<69714, 69743>>,
     <<69745, 69746>>, <<69749, 69749>>, <<69763, 69807>>,
     <<69840, 69864>>, <<69872, 69881>>, <<69891, 69926>>,
     <<69942, 69951>>, <<69956, 69956>>, <<69959, 69959>>,
     <<69968, 70002>>, <<70006, 70006>>, <<70019, 70066>>,
     <<70081, 70084>>, <<70096, 70106>>, <<70108, 70108>>,
     <<70113, 70132>>, <<70144, 70161>>, <<70163, 70187>>,
     <<70272, 70278>>, <<70280, 70280>>, <<70282, 70285>>,
     <<70287, 70301>>, <<70303, 70312>>, <<70320, 70366>>,
     <<70384, 70393>>, <<70405, 70412>>, <<70415, 70416>>,
     <<70419, 70440>>, <<70442, 70448>>, <<70450, 70451>>,
     <<70453, 70457>>, <<70461, 70461>>, <<70480, 70480>>,
     <<70493, 70497>>, <<70656, 70708>>, <<70727, 70730>>,
     <<70736, 70745>>, <<70751, 70753>>, <<70784, 70831>>,
     <<70852, 70853>>, <<70855, 70855>>, <<70864, 70873>>,
     <<71040, 71086>>, <<71128, 71131>>, <<71168, 71215>>,
     <<71236, 71236>>, <<71248, 71257>>, <<71296, 71338>>,
     <<71352, 71352>>, <<71360, 71369>>, <<71424, 71450>>,
     <<71472, 71483>>, <<71488, 71494>>, <<71680, 71723>>,
     <<71840, 71922>>, <<71935, 71942>>, <<71945, 71945>>,
     <<71948, 71955>>, <<71957, 71958>>, <<71960, 71983>>,
     <<71999, 71999>>, <<72001, 72001>>, <<72016, 72025>>,
     <<72096, 72103>>, <<72106, 72144>>, <<72161, 72161>>,
     <<72163, 72163>>, <<72192, 72192>>, <<72203, 72242>>,
     <<72250, 72250>>, <<72272, 72272>>, <<72284, 72329>>,
     <<72349, 72349>>, <<72368, 72440>>, <<72704, 72712>>,
     <<72714, 72750>>, <<72768, 72768>>, <<72784, 72812>>,
     <<72818, 72847>>, <<72960, 72966>>, <<72968, 72969>>,
     <<72971, 73008>>, <<73030, 73030>>, <<73040, 73049>>,
     <<73056, 73061>>, <<73063, 73064>>, <<73066, 73097>>,
     <<73112, 73112>>, <<73120, 73129>>, <<73440, 73458>>,
     <<73648, 73648>>, <<73664, 73684>>, <<73728, 74649>>,
     <<74752, 74862>>, <<74880, 75075>>, <<77712, 77808>>,
     <<77824, 78894>>, <<82944, 83526>>, <<92160, 92728>>,
     <<92736, 92766>>, <<92768, 92777>>, <<92784, 92862>>,
     <<92864, 92873>>, <<92880, 92909>>, <<92928, 92975>>,
     <<92992, 92995>>, <<93008, 93017>>, <<93019, 93025>>,
     <<93027, 93047>>, <<93053, 93071>>, <<93760, 93846>>,
     <<93952, 94026>>, <<94032, 94032>>, <<94099, 94111>>,
     <<94176, 94177>>, <<94179, 94179>>, <<94208, 100343>>,
     <<100352, 101589>>, <<101632, 101640>>, <<110576, 110579>>,
     <<110581, 110587>>, <<110589, 110590>>, <<110592, 110882>>,
     <<110928, 110930>>, <<110948, 110951>>, <<110960, 111355>>,
     <<113664, 113770>>, <<113776, 113788>>, <<113792, 113800>>,
     <<113808, 113817>>, <<119520, 119539>>, <<119648, 119672>>,
     <<119808, 119892>>, <<119894, 119964>>, <<119966, 119967>>,
     <<119970, 119970>>, <<119973, 119974>>, <<119977, 119980>>,
     <<119982, 119993>>, <<119995, 119995>>, <<119997, 120003>>,
     <<120005, 120069>>, <<120071, 120074>>, <<120077, 120084>>,
     <<120086, 120092>>, <<120094, 120121>>, <<120123, 120126>>,
     <<120128, 120132>>, <<120134, 120134>>, <<120138, 120144>>,
     <<120146, 120485>>, <<120488, 120512>>, <<120514, 120538>>,
     <<120540, 120570>>, <<120572, 120596>>, <<120598, 120628>>,
     <<120630, 120654>>, <<120656, 120686>>, <<120688, 120712>>,
     <<120714, 120744>>, <<120746, 120770>>, <<120772, 120779>>,
     <<120782, 120831>>, <<122624, 122654>>, <<123136, 123180>>,
     <<123191, 123197>>, <<123200, 123209>>, <<123214, 123214>>,
     <<123536, 123565>>, <<123584, 123627>>, <<123632, 123641>>,
     <<124896, 124902>>, <<124904, 124907>>, <<124909, 124910>>,
     <<124912, 124926>>, <<124928, 125124>>, <<125127, 125135>>,
     <<125184, 125251>>, <<125259, 125259>>, <<125264, 125273>>,
     <<126065, 126123>>, <<126125, 126127>>, <<126129, 126132>>,
     <<126209, 126253>>, <<126255, 126269>>, <<126464, 126467>>,
     <<126469, 126495>>, <<126497, 126498>>, <<126500, 126500>>,
     <<126503, 126503>>, <<126505, 126514>>, <<126516, 126519>>,
     <<126521, 126521>>, <<126523, 126523>>, <<126530, 126530>>,
     <<126535, 126535>>, <<126537, 126537>>, <<126539, 126539>>,
     <<126541, 126543>>, <<126545, 126546>>, <<126548, 126548>>,
     <<126551, 126551>>, <<126553, 126553>>, <<126555, 126555>>,
     <<126557, 126557>>, <<126559, 126559>>, <<126561, 126562>>,
     <<126564, 126564>>, <<126567, 126570>>, <<126572, 126578>>,
     <<126580, 126583>>, <<126585, 126588>>, <<126590, 126590>>,
     <<126592, 126601>>, <<126603, 126619>>, <<126625, 126627>>,
     <<126629, 126633>>, <<126635, 126651>>, <<127232, 127244>>,
     <<130032, 130041>>, <<131072, 173791>>, <<173824, 177976>>,
     <<177984, 178205>>, <<178208, 183969>>, <<183984, 191456>>,
     <<194560, 195101>>, <<196608, 201546>>}

\* \w of the pattern of get_valid_filename, which matches Unicode: the
\* ASCII digits and letters, "_", and the characters of WordRanges.
IsWord(ch) ==
    IF ch < 128
    THEN \/ 48 <= ch /\ ch <= 57
         \/ 65 <= ch /\ ch <= 90
         \/ 97 <= ch /\ ch <= 122
         \/ ch = 95
    ELSE \E range \in WordRanges : range[1] <= ch /\ ch <= range[2]

\* django.utils.text.get_valid_filename(s): s.strip(), every space replaced
\* by "_", every character other than "-", "." and \w dropped.
get_valid_filename(s) ==
    LET t == Trimmed(s)
        u == [i \in 1..Len(t) |-> IF t[i] = Space THEN Underscore ELSE t[i]]
    IN  SelectSeq(u, LAMBDA ch : IsWord(ch) \/ ch \in {Hyphen, Dot})

\* FileField.generate_filename: upload_to, then Storage.get_valid_name on
\* the last component, <uuid4>.<ext>.  Every character of a uuid is kept;
\* "0" stands for the uuid.
generate_filename(filename, uuid) ==
    [file_upload_path(filename, uuid) EXCEPT
        !.ext = Tail(Tail(get_valid_filename(Text(<<"0", ".">>) \o @)))]

\* Storage.get_available_name(name, max_length) for a generated name, which
\* no stored file has.  A name of at most max_length characters is kept.
\* A longer one gets its root, the uuid, followed by random characters and
\* cut at its end by what the name then has too much (cut counts the
\* characters taken from the uuid); with nothing of the root left
\* SuspiciousFileOperation is raised: None.
get_available_name(name, max_length) ==
    LET length == DirLength + UuidLength + 1 + Len(name.ext)
        truncation == length + AlternativeLength - max_length
    IN  IF length <= max_length
        THEN Some([dir |-> name.dir, uuid |-> name.uuid, cut |-> 0,
                   random |-> FALSE, ext |-> name.ext])
        ELSE IF truncation >= UuidLength THEN None
        ELSE Some([dir |-> name.dir, uuid |-> name.uuid, cut |-> truncation,
                   random |-> TRUE, ext |-> name.ext])

\* FieldFile.save, to storage.save(name, content, max_length): the name
\* under which the bytes of an upload are stored, or None when the storage
\* raises.
FieldFileSave(filename, uuid) ==
    get_available_name(generate_filename(filename, uuid), FileMaxLength)

\* timezone.now() at the save of the row that draws the identifier uuid
\* (auto_now_add): the clock reads the first instant of day 1 at the first
\* row and advances by one instant with every identifier drawn.
Now(uuid) == At(1, 0) + uuid - 1

\* File.objects.filter(id=i)
ById(rows, i) == {r \in rows : r.id = i}

\* FileSerializer: the response body of the instance row.  The field
\* referenced_file_id (source 'referenced_file.id') follows the relation:
\* the referenced row is read from rows, the rows of the table at the time
\* of the response or the row the view has attached to the instance, and
\* the field is null when the instance references no row or a row that is
\* not there.
FileSerializer(row, rows) ==
    [id |-> row.id, file |-> row.file,
     original_filename |-> row.original_filename,
     file_type |-> row.file_type, size |-> row.size,
     uploaded_at |-> row.uploaded_at,
     content_hash |-> row.content_hash, is_duplicate |-> row.is_duplicate,
     reference_count |-> row.reference_count,
     referenced_file_id |->
         IF row.referenced_file = None THEN None
         ELSE IF ById(rows, Val(row.referenced_file)) = {} THEN None
         ELSE row.referenced_file]

\* The data of a serializer: a writable field is None when the request
\* does not carry it and Some(value) when it does.
NoData ==
    [file |-> None, original_filename |-> None, file_type |-> None,
     size |-> None, content_hash |-> None, is_duplicate |-> None,
     reference_count |-> None]

\* The fields without a default, which all but a partial update must carry.
RequiredFields == {"file", "original_filename", "file_type", "size"}

\* The code points ProhibitSurrogateCharactersValidator looks for
\* (rest_framework 3.12 and later): U+D800 to U+DFFF.
FirstSurrogate == 55296
LastSurrogate == 57343

\* CharField(max_length): the value is trimmed; it is refused when nothing
\* is left, when more than max_length characters are left, and when it
\* holds a null character or a surrogate.
CharFieldRefused(value, max_length) ==
    \/ Trimmed(value) = <<>>
    \/ Len(Trimmed(value)) > max_length
    \/ \E i \in 1..Len(value) :
          \/ value[i] = NullCharacter
          \/ FirstSurrogate <= value[i] /\ value[i] <= LastSurrogate

\* The validation of one field by the serializer field built for it:
\*   file               FileField: a name, no empty file, a name of at
\*                      most max_length characters
\*   original_filename  CharField(max_length)
\*   file_type          CharField(max_length)
\*   content_hash       nullable; UniqueValidator over the rows other than
\*                      the instance that is updated
\*   reference_count    PositiveIntegerField: min_value 0
Refused(field, value, instance, rows) ==
    CASE field = "file" ->
            \/ value.name = <<>>
            \/ value.content = <<>>
            \/ Len(value.name) > FileMaxLength
      [] field = "original_filename" ->
            CharFieldRefused(value, OriginalFilenameMaxLength)
      [] field = "file_type" ->
            CharFieldRefused(value, FileTypeMaxLength)
      [] field = "content_hash" ->
            /\ value # None
            /\ \E r \in rows :
                  /\ r.content_hash = value
                  /\ IF instance = None THEN TRUE ELSE r.id # Val(instance).id
      [] field = "reference_count" -> value < 0
      [] OTHER -> FALSE

\* serializer.is_valid(): the fields in error.
Errors(data, partial, instance, rows) ==
    {k \in RequiredFields : ~partial /\ data[k] = None}
    \cup {k \in DOMAIN data :
            IF data[k] = None THEN FALSE
            ELSE Refused(k, Val(data[k]), instance, rows)}

\* An upload the serializer and the storage have nothing against: it has
\* bytes; its content type, trimmed, is not blank and File.file_type can
\* hold it; File.file can hold its name, which is not blank once trimmed;
\* neither holds a null character or a surrogate; and what the storage
\* keeps of its extension is short enough for the generated name to be cut
\* to what File.file can hold.
Accepted(f) ==
    /\ f.content # <<>>
    /\ ~CharFieldRefused(f.content_type, FileTypeMaxLength)
    /\ Len(f.name) <= FileMaxLength
    /\ ~CharFieldRefused(f.name, OriginalFilenameMaxLength)
    /\ DirLength + 1 + Len(generate_filename(f.name, 0).ext) + AlternativeLength
          < FileMaxLength

VARIABLES
    records,    \* the rows of the File table (committed)
    blobs,      \* the locators of the files in the media storage
    nextUuid,   \* uuid.uuid4(): the next fresh value
    updates,    \* the update requests that have loaded their row
    pc,         \* pc[p]: where request p stands
    local,      \* local[p]: the local variables of request p
    resp        \* resp[p]: the response of request p, once it has one

vars == <<records, blobs, nextUuid, updates, pc, local, resp>>

NoLocal == [file_obj |-> None, content_hash |-> None, existing_file |-> None,
            instance |-> None, serializer |-> None]

Init ==
    /\ records = {}
    /\ blobs = {}
    /\ nextUuid = 1
    /\ updates = 0
    /\ pc = [p \in Procs |-> "idle"]
    /\ local = [p \in Procs |-> NoLocal]
    /\ resp = [p \in Procs |-> None]

\* ------------------------------------------------------- the repository
\* File.objects.filter(content_hash=h)
ByHash(rows, h) == {r \in rows : r.content_hash = h}

\* The rows whose referenced_file is i (related_name='duplicates').
Duplicates(rows, i) == {r \in rows : r.referenced_file = Some(i)}

\* Mutant of UniqueViolation: no unique index on content_hash.
UniqueViolationOff(rows, h) == FALSE

\* unique=True on content_hash: inserting a row with hash h is refused when
\* a row with that hash exists (NULL is never equal to NULL).
UniqueViolation(rows, h) == h # None /\ ByHash(rows, h) # {}

\* Mutant of UpdateCount: the update is not applied.
UpdateCountSkipped(rows, i, d) == rows

\* Mutant of UpdateCount: no filter(id=i), every row is updated.
UpdateCountUnfiltered(rows, i, d) ==
    {[r EXCEPT !.reference_count = r.reference_count + d] : r \in rows}

\* Mutant of UpdateCount: the count is always incremented.
UpdateCountUp(rows, i, d) ==
    {IF r.id = i THEN [r EXCEPT !.reference_count = @ + 1] ELSE r : r \in rows}

\* File.objects.filter(id=i).update(reference_count=F('reference_count') + d)
UpdateCount(rows, i, d) ==
    {IF r.id = i THEN [r EXCEPT !.reference_count = @ + d] ELSE r : r \in rows}

\* PositiveIntegerField: CHECK (reference_count >= 0)
CheckViolation(rows) == \E r \in rows : r.reference_count < 0

Respond(p, status, body) ==
    /\ resp' = [resp EXCEPT ![p] = Some([status |-> status, body |-> body])]
    /\ pc' = [pc EXCEPT ![p] = "done"]

\* The identifiers the requests in flight may still draw: an upload at most
\* two (the id of its row, the name of its file), an update that carries a
\* file one.
InFlight ==
    2 * Cardinality({p \in Procs : pc[p] \in {"lookup", "duplicate", "canonical"}})
    + Cardinality({p \in Procs :
                     IF pc[p] \in {"validate", "update_file"}
                     THEN Val(local[p].serializer).data.file # None
                     ELSE FALSE})


\* Mutant of DuplicateRow: the duplicate is not linked to its original.
DuplicateRowUnlinked(uuid, f, existing) ==
    [id |-> uuid,
     file |-> existing.file,
     original_filename |-> f.name,
     file_type |-> f.content_type,
     size |-> Len(f.content),
     uploaded_at |-> Now(uuid),
     content_hash |-> None,
     is_duplicate |-> TRUE,
     reference_count |-> 1,
     referenced_file |-> None]

\* The row built by File.objects.create(...) at lines 114-123 and 160-169:
\* the duplicate of `existing` for the upload f, with the fresh id uuid.
DuplicateRow(uuid, f, existing) ==
    [id |-> uuid,
     file |-> existing.file,
     original_filename |-> f.name,
     file_type |-> f.content_type,
     size |-> Len(f.content),
     uploaded_at |-> Now(uuid),
     content_hash |-> None,
     is_duplicate |-> TRUE,
     reference_count |-> 1,
     referenced_file |-> Some(existing.id)]

\* Mutant of CanonicalRow: the digest is not passed to save().
CanonicalRowWithoutHash(uuid, f, locator, content_hash) ==
    [id |-> uuid,
     file |-> Some(locator),
     original_filename |-> Trimmed(f.name),
     file_type |-> Trimmed(f.content_type),
     size |-> Len(f.content),
     uploaded_at |-> Now(uuid),
     content_hash |-> None,
     is_duplicate |-> FALSE,
     reference_count |-> 1,
     referenced_file |-> None]

\* The row built by serializer.save(...) at lines 137-151: the canonical row
\* of the upload f, with the fresh id uuid and its file at locator.  The
\* name and the type are the validated ones, which CharField has trimmed.
CanonicalRow(uuid, f, locator, content_hash) ==
    [id |-> uuid,
     file |-> Some(locator),
     original_filename |-> Trimmed(f.name),
     file_type |-> Trimmed(f.content_type),
     size |-> Len(f.content),
     uploaded_at |-> Now(uuid),
     content_hash |-> content_hash,
     is_duplicate |-> FALSE,
     reference_count |-> 1,
     referenced_file |-> None]

\* ------------------------------------------------------ FileViewSet.create
\* Mutant of CreateStart: no check that the request carries a file; hashing
\* the missing file raises.
CreateStartUnchecked(p, f) ==
    /\ pc[p] = "idle"
    /\ IF f = None
       THEN /\ Respond(p, 500, [error |-> "AttributeError"])
            /\ UNCHANGED local
       ELSE /\ local' = [local EXCEPT ![p] =
                    [NoLocal EXCEPT !.file_obj = f,
                        !.content_hash = Some(
                            compute_file_hash(Val(f).content, 0, DefaultChunkSize).digest)]]
            /\ pc' = [pc EXCEPT ![p] = "lookup"]
            /\ UNCHANGED resp
    /\ UNCHANGED <<records, blobs, nextUuid, updates>>

\* Lines 102-106: the file of the request, its digest.
CreateStart(p, f) ==
    /\ pc[p] = "idle"
    /\ IF f = None
       THEN /\ Respond(p, 400, [error |-> "No file provided"])
            /\ UNCHANGED local
       ELSE /\ local' = [local EXCEPT ![p] =
                    [NoLocal EXCEPT !.file_obj = f,
                        !.content_hash = Some(
                            compute_file_hash(Val(f).content, 0, DefaultChunkSize).digest)]]
            /\ pc' = [pc EXCEPT ![p] = "lookup"]
            /\ UNCHANGED resp
    /\ UNCHANGED <<records, blobs, nextUuid, updates>>

\* A create request, taken while identifiers are left for it and for the
\* requests in flight.
CreateBegin(p, f) ==
    /\ nextUuid + InFlight + 2 - 1 <= MaxUuid
    /\ CreateStart(p, f)

\* Lines 109-111: File.objects.filter(content_hash=content_hash).first()
CreateLookup(p) ==
    /\ pc[p] = "lookup"
    /\ LET found == ByHash(records, local[p].content_hash)
       IN  IF found # {}
           THEN /\ \E e \in found :
                     local' = [local EXCEPT ![p].existing_file = Some(e)]
                /\ pc' = [pc EXCEPT ![p] = "duplicate"]
           ELSE /\ pc' = [pc EXCEPT ![p] = "canonical"]
                /\ UNCHANGED local
    /\ UNCHANGED <<records, blobs, nextUuid, updates, resp>>

\* Lines 114-134, to the commit of the atomic block: the duplicate row is
\* inserted and the count of the row that was looked up incremented.  When
\* that row has been deleted since the lookup the update changes no row and
\* refresh_from_db raises File.DoesNotExist (the foreign key of the inserted
\* row has no target either): the block is rolled back.  The response is
\* serialized from the new instance, to which existing_file is attached.
CreateDuplicate(p) ==
    /\ pc[p] = "duplicate"
    /\ LET f == Val(local[p].file_obj)
           existing == Val(local[p].existing_file)
           dup == DuplicateRow(nextUuid, f, existing)
       IN  IF ById(records, existing.id) = {}
           THEN /\ Respond(p, 500, [error |-> "DoesNotExist"])
                /\ UNCHANGED records
           ELSE /\ records' = UpdateCount(records \cup {dup}, existing.id, 1)
                /\ Respond(p, 201, FileSerializer(dup, {existing}))
    /\ nextUuid' = nextUuid + 1
    /\ UNCHANGED updates
    /\ UNCHANGED <<blobs, local>>

\* Lines 137-147: serializer.is_valid(raise_exception=True) answers 400
\* for an upload the serializer refuses, and nothing is written.  Otherwise
\* serializer.save() builds the row, which gets its id, and
\* FileField.pre_save stores the bytes under the name generated by
\* file_upload_path: the storage is not transactional, the file is there at
\* once.  When the storage refuses the name (SuspiciousFileOperation) the
\* block is left, the request is answered 400 and nothing is written.
CreateCanonical(p) ==
    /\ pc[p] = "canonical"
    /\ LET f == Val(local[p].file_obj)
           data == [NoData EXCEPT !.file = Some(f),
                                  !.original_filename = Some(f.name),
                                  !.file_type = Some(f.content_type),
                                  !.size = Some(Len(f.content))]
           errors == Errors(data, FALSE, None, records)
           id == nextUuid
       IN  IF errors # {}
           THEN /\ Respond(p, 400, [invalid |-> errors])
                /\ UNCHANGED <<blobs, nextUuid, updates, local>>
           ELSE \E stored \in {FieldFileSave(f.name, nextUuid + 1)} :
                IF stored = None
                THEN /\ Respond(p, 400, [error |-> "SuspiciousFileOperation"])
                     /\ UNCHANGED <<blobs, nextUuid, updates, local>>
                ELSE \E row \in {CanonicalRow(id, f, Val(stored),
                                              local[p].content_hash)} :
                     /\ blobs' = blobs \cup {Val(stored)}
                     /\ nextUuid' = nextUuid + 2
                     /\ UNCHANGED updates
                     /\ local' = [local EXCEPT ![p].serializer =
                                      Some([data |-> data, partial |-> FALSE,
                                            multipart |-> FALSE,
                                            instance |-> Some(row)])]
                     /\ pc' = [pc EXCEPT ![p] = "insert"]
                     /\ UNCHANGED resp
    /\ UNCHANGED records

\* Lines 147-154, to the commit of the atomic block: the row is inserted.
\* The unique index refuses it when a row with the digest exists:
\* IntegrityError (line 156); the file written stays in the storage.
CreateInsert(p) ==
    /\ pc[p] = "insert"
    /\ LET row == Val(Val(local[p].serializer).instance)
       IN  IF UniqueViolation(records, row.content_hash)
           THEN /\ pc' = [pc EXCEPT ![p] = "conflict"]
                /\ UNCHANGED <<records, resp>>
           ELSE /\ records' = records \cup {row}
                /\ Respond(p, 201, FileSerializer(row, records'))
    /\ UNCHANGED <<blobs, nextUuid, updates, local>>

\* Mutant of CreateConflict: the request starts over at the lookup.
CreateConflictRetry(p) ==
    /\ pc[p] = "conflict"
    /\ pc' = [pc EXCEPT ![p] = "lookup"]
    /\ UNCHANGED <<records, blobs, nextUuid, updates, local, resp>>

\* Lines 156-158: the IntegrityError was raised by Model.save() inside the
\* atomic block of line 108, which marks the transaction as needing
\* rollback; the query of line 158 is refused with
\* TransactionManagementError and the block is rolled back.  Lines 160-179
\* are never reached.
CreateConflict(p) ==
    /\ pc[p] = "conflict"
    /\ Respond(p, 500, [error |-> "TransactionManagementError"])
    /\ UNCHANGED <<records, blobs, nextUuid, updates, local>>

\* ----------------------------------------------------- FileViewSet.destroy
\* get_object_or_404(queryset, pk=id) of GenericAPIView.get_object(), on the
\* result of get_queryset(): an invalid filter value has raised
\* ValidationError (400); an id that is not among the filtered rows raises
\* Http404.
get_object_or_404(result, id) ==
    IF result.error # None
    THEN [found |-> {}, status |-> 400, body |-> Val(result.error)]
    ELSE IF ById(result.queryset, id) = {}
    THEN [found |-> {}, status |-> 404, body |-> [error |-> "Not found"]]
    ELSE [found |-> ById(result.queryset, id), status |-> 200, body |-> None]

\* GenericAPIView.get_object(): the row with the id of the URL is looked up
\* in get_queryset(), that is among the rows the filters of the query string
\* let through.
get_object(rows, id, query_params, from_iso) ==
    get_object_or_404(get_queryset(rows, query_params, from_iso), id)

\* A query string without filters.
NoFilter ==
    [search |-> None, file_type |-> None, size_min |-> None, size_max |-> None,
     uploaded_after |-> None, uploaded_before |-> None]

\* The query strings sent with a request for one row: none, a search no name
\* matches, a file type, a size that is no integer, and a date.
DetailParams ==
    { NoFilter,
      [NoFilter EXCEPT !.search = Some(Text(<<"z">>))],
      [NoFilter EXCEPT !.file_type = Some(TextPlain)],
      [NoFilter EXCEPT !.size_min = Some(Text(<<"a", "b", "c">>))],
      [NoFilter EXCEPT !.uploaded_before = Some(DateParam("date", 1, 0))] }

\* The query strings sent with an update: none, and a size int() does not
\* read, the separator U+001C before the digit.
UpdateParams ==
    { NoFilter, [NoFilter EXCEPT !.size_min = Some(<<28>> \o Text(<<"1">>))] }

\* The results parse_datetime may give for the date bounds of query_params:
\* the version of Django decides for a value with no time part, and for no
\* other value.
FromIso(query_params) ==
    IF \E k \in {"uploaded_after", "uploaded_before"} :
          IF query_params[k] = None THEN FALSE
          ELSE Val(query_params[k]).form = "date"
    THEN BOOLEAN
    ELSE {FALSE}

\* Mutant of DestroyBegin: deleting what is not there is answered 204.
DestroyBeginIdempotent(p, id, query_params, from_iso) ==
    /\ pc[p] = "idle"
    /\ \E object \in {get_object(records, id, query_params, from_iso)} :
           IF object.found = {}
           THEN /\ Respond(p, 204, None)
                /\ UNCHANGED local
           ELSE /\ \E r \in object.found :
                     local' = [local EXCEPT ![p] =
                                  [NoLocal EXCEPT !.instance = Some(r)]]
                /\ pc' = [pc EXCEPT ![p] = "destroy"]
                /\ UNCHANGED resp
    /\ UNCHANGED <<records, blobs, nextUuid, updates>>

\* Line 182: get_object(), outside the transaction.
DestroyBegin(p, id, query_params, from_iso) ==
    /\ pc[p] = "idle"
    /\ \E object \in {get_object(records, id, query_params, from_iso)} :
           IF object.found = {}
           THEN /\ Respond(p, object.status, object.body)
                /\ UNCHANGED local
           ELSE /\ \E r \in object.found :
                     local' = [local EXCEPT ![p] =
                                  [NoLocal EXCEPT !.instance = Some(r)]]
                /\ pc' = [pc EXCEPT ![p] = "destroy"]
                /\ UNCHANGED resp
    /\ UNCHANGED <<records, blobs, nextUuid, updates>>

\* Lines 185-187: original = instance.referenced_file, the first statement
\* of the atomic block, reads the row the duplicate references; it raises
\* File.DoesNotExist when that row is gone.  An instance that references no
\* row is not looked up.
DestroyOriginal(p) ==
    /\ pc[p] = "destroy"
    /\ Val(local[p].instance).is_duplicate
    /\ LET instance == Val(local[p].instance)
       IN  IF instance.referenced_file = None
           THEN /\ pc' = [pc EXCEPT ![p] = "delete_duplicate"]
                /\ UNCHANGED resp
           ELSE IF ById(records, Val(instance.referenced_file)) = {}
           THEN Respond(p, 500, [error |-> "DoesNotExist"])
           ELSE /\ pc' = [pc EXCEPT ![p] = "delete_duplicate"]
                /\ UNCHANGED resp
    /\ UNCHANGED <<records, blobs, nextUuid, updates, local>>

\* Lines 188-194, to the commit: the count of the row with the id of
\* original is decremented (an update that matches no row changes nothing;
\* the CHECK of PositiveIntegerField refuses a negative count) and the
\* loaded row deleted: on_delete=PROTECT raises ProtectedError when a row
\* references the instance, and the block is rolled back; deleting a row
\* that is gone deletes nothing.
DestroyDuplicate(p) ==
    /\ pc[p] = "delete_duplicate"
    /\ LET instance == Val(local[p].instance)
           original == Val(instance.referenced_file)
           updated == IF instance.referenced_file = None THEN records
                      ELSE UpdateCount(records, original, -1)
       IN  IF CheckViolation(updated)
           THEN /\ Respond(p, 500, [error |-> "IntegrityError"])
                /\ UNCHANGED records
           ELSE IF Duplicates(records, instance.id) # {}
           THEN /\ Respond(p, 500, [error |-> "ProtectedError"])
                /\ UNCHANGED records
           ELSE /\ records' = {r \in updated : r.id # instance.id}
                /\ Respond(p, 204, None)
    /\ UNCHANGED <<blobs, nextUuid, updates, local>>

\* Mutant of Protected: the guard off by one.
ProtectedOffByOne(instance) == instance.reference_count > 2

\* Line 197: the guard, on the count of the loaded instance.
Protected(instance) == instance.reference_count > 1

\* Lines 195-200: an original with duplicates is not deleted.
DestroyGuard(p) ==
    /\ pc[p] = "destroy"
    /\ ~Val(local[p].instance).is_duplicate
    /\ IF Protected(Val(local[p].instance))
       THEN Respond(p, 403, [error |-> "PermissionDenied"])
       ELSE /\ pc' = [pc EXCEPT ![p] = "delete_file"]
            /\ UNCHANGED resp
    /\ UNCHANGED <<records, blobs, nextUuid, updates, local>>

\* Mutant of StorageDelete: the file is left in the storage.
StorageDeleteKeeps(store, name) == store

\* FieldFile.delete(): storage.delete(name); a name that is not stored is
\* no error.
StorageDelete(store, name) == store \ {name}

\* Lines 203-204: when the instance has a file, instance.file.delete()
\* removes it from the storage.  (It also clears instance.file and saves
\* the instance; that write belongs to the transaction and is part of
\* DestroyRecord.)  An instance without a file goes on to line 207.
DestroyFile(p) ==
    /\ pc[p] = "delete_file"
    /\ LET instance == Val(local[p].instance)
       IN  IF instance.file # None
           THEN /\ blobs' = StorageDelete(blobs, Val(instance.file))
                /\ local' = [local EXCEPT ![p].instance =
                                 Some([instance EXCEPT !.file = None])]
                /\ pc' = [pc EXCEPT ![p] = "delete_record"]
           ELSE /\ pc' = [pc EXCEPT ![p] = "delete_row"]
                /\ UNCHANGED <<blobs, local>>
    /\ UNCHANGED <<records, nextUuid, updates, resp>>

\* Model.save() of the loaded instance (FieldFile.delete(save=True), line
\* 204): the row with its id is overwritten with the loaded values, or
\* inserted when no row has that id; either write is refused by the unique
\* index when another row holds the content_hash of the instance.
SaveInstance(rows, instance) ==
    {r \in rows : r.id # instance.id} \cup {instance}

\* Mutant of DestroyRecord: instance.delete() removes no row.
DestroyRecordKeepsRow(p) ==
    /\ pc[p] \in {"delete_record", "delete_row"}
    /\ LET instance == Val(local[p].instance)
           others == {r \in records : r.id # instance.id}
           saved == IF pc[p] = "delete_record"
                    THEN SaveInstance(records, instance) ELSE records
       IN  IF pc[p] = "delete_record"
                /\ UniqueViolation(others, instance.content_hash)
           THEN /\ Respond(p, 500, [error |-> "IntegrityError"])
                /\ UNCHANGED records
           ELSE IF Duplicates(saved, instance.id) # {}
           THEN /\ Respond(p, 500, [error |-> "ProtectedError"])
                /\ UNCHANGED records
           ELSE /\ UNCHANGED records
                /\ Respond(p, 204, None)
    /\ UNCHANGED <<blobs, nextUuid, updates, local>>

\* Lines 204-208, to the commit: the save of the instance when its file
\* was deleted, then instance.delete(): on_delete=PROTECT raises
\* ProtectedError when a row references the instance, and the block is
\* rolled back.
DestroyRecord(p) ==
    /\ pc[p] \in {"delete_record", "delete_row"}
    /\ LET instance == Val(local[p].instance)
           others == {r \in records : r.id # instance.id}
           saved == IF pc[p] = "delete_record"
                    THEN SaveInstance(records, instance) ELSE records
       IN  IF pc[p] = "delete_record"
                /\ UniqueViolation(others, instance.content_hash)
           THEN /\ Respond(p, 500, [error |-> "IntegrityError"])
                /\ UNCHANGED records
           ELSE IF Duplicates(saved, instance.id) # {}
           THEN /\ Respond(p, 500, [error |-> "ProtectedError"])
                /\ UNCHANGED records
           ELSE /\ records' = {r \in saved : r.id # instance.id}
                /\ Respond(p, 204, None)
    /\ UNCHANGED <<blobs, nextUuid, updates, local>>

\* The worker takes its next request.
Return(p) ==
    /\ pc[p] = "done"
    /\ pc' = [pc EXCEPT ![p] = "idle"]
    /\ local' = [local EXCEPT ![p] = NoLocal]
    /\ resp' = [resp EXCEPT ![p] = None]
    /\ UNCHANGED <<records, blobs, nextUuid, updates>>

\* ------------------------- FileViewSet.update, FileViewSet.partial_update
\* The requests PUT (partial = FALSE) and PATCH (partial = TRUE) send: the
\* flag of a duplicate, a count with a file type between spaces, the digest
\* of a.txt, a name alone that is a lone surrogate, and a new file with its
\* name, type and size.  A request with a file is a
\* multipart form, the others are JSON.  The name of the new file has 60
\* characters and no dot: the name generated for the storage is longer than
\* File.file allows and is cut.
UpdateRequests ==
    LET c == [name |-> [i \in 1..60 |-> Ord("c")], content_type |-> TextPlain,
              content |-> <<3>>]
        a == CHOOSE u \in Uploads : u.name = Text(<<"a", ".", "t", "x", "t">>)
    IN  { [partial |-> TRUE, multipart |-> FALSE, data |-> [NoData EXCEPT !.is_duplicate = Some(TRUE)]],
          [partial |-> TRUE, multipart |-> FALSE,
           data |-> [NoData EXCEPT !.reference_count = Some(1),
                                   !.file_type = Some(Text(<<" ", "t", " ">>))]],
          [partial |-> TRUE, multipart |-> FALSE,
           data |-> [NoData EXCEPT !.content_hash = Some(Some(
                        compute_file_hash(a.content, 0, DefaultChunkSize).digest))]],
          [partial |-> FALSE, multipart |-> FALSE,
           data |-> [NoData EXCEPT !.original_filename = Some(<<FirstSurrogate>>)]],
          [partial |-> FALSE, multipart |-> TRUE,
           data |-> [NoData EXCEPT !.file = Some(c),
                                   !.original_filename = Some(c.name),
                                   !.file_type = Some(c.content_type),
                                   !.size = Some(Len(c.content))]] }

\* UpdateModelMixin.update, to get_object(): the row is loaded outside any
\* transaction and handed to the serializer with the data of the request.
\* A behaviour has at most MaxUpdates updates that load a row.
UpdateBegin(p, id, query_params, from_iso, request) ==
    /\ pc[p] = "idle"
    /\ updates < MaxUpdates
    /\ request.data.file # None => nextUuid + InFlight + 1 - 1 <= MaxUuid
    /\ \E object \in {get_object(records, id, query_params, from_iso)} :
           IF object.found = {}
           THEN /\ Respond(p, object.status, object.body)
                /\ UNCHANGED <<local, updates>>
           ELSE /\ updates' = updates + 1
                /\ \E r \in object.found :
                     local' = [local EXCEPT ![p] =
                                  [NoLocal EXCEPT !.serializer =
                                      Some([data |-> request.data,
                                            partial |-> request.partial,
                                            multipart |-> request.multipart,
                                            instance |-> Some(r)])]]
                /\ pc' = [pc EXCEPT ![p] = "validate"]
                /\ UNCHANGED resp
    /\ UNCHANGED <<records, blobs, nextUuid>>

\* Field.get_value for every field of the serializer: a field a form does
\* not carry has the value default_empty_html of its class unless the
\* request is partial, which is False for BooleanField (is_duplicate) and
\* no value for the other fields; JSON carries what it carries.
get_value(data, partial, multipart) ==
    IF multipart /\ ~partial /\ data.is_duplicate = None
    THEN [data EXCEPT !.is_duplicate = Some(FALSE)]
    ELSE data

\* ModelSerializer.update: setattr(instance, attr, value) for every
\* validated field.  The file is assigned when it is stored.
Assigned(instance, data) ==
    [k \in DOMAIN instance |->
        IF k \in DOMAIN data \ {"file"}
        THEN IF data[k] = None THEN instance[k]
             ELSE IF k \in {"original_filename", "file_type"}
             THEN Trimmed(Val(data[k]))
             ELSE Val(data[k])
        ELSE instance[k]]

\* serializer.is_valid(raise_exception=True), which reads the rows for the
\* UniqueValidator of content_hash, then the assignments of
\* ModelSerializer.update to the loaded instance.
UpdateValidate(p) ==
    /\ pc[p] = "validate"
    /\ LET serializer == Val(local[p].serializer)
           data == get_value(serializer.data, serializer.partial,
                             serializer.multipart)
           errors == Errors(data, serializer.partial,
                            serializer.instance, records)
       IN  IF errors # {}
           THEN /\ Respond(p, 400, [invalid |-> errors])
                /\ UNCHANGED local
           ELSE /\ local' = [local EXCEPT ![p].serializer =
                                 Some([serializer EXCEPT !.instance =
                                     Some(Assigned(Val(serializer.instance),
                                                   data))])]
                /\ pc' = [pc EXCEPT ![p] =
                             IF serializer.data.file # None
                             THEN "update_file" ELSE "update_row"]
                /\ UNCHANGED resp
    /\ UNCHANGED <<records, blobs, nextUuid, updates>>

\* instance.save(), FileField.pre_save: the new file is stored under a new
\* name generated by file_upload_path; the file the row had is left in the
\* storage.  When the storage refuses the name the request is answered 400.
UpdateFile(p) ==
    /\ pc[p] = "update_file"
    /\ LET serializer == Val(local[p].serializer)
           stored == FieldFileSave(Val(serializer.data.file).name, nextUuid)
           locator == Val(stored)
       IN  IF stored = None
           THEN /\ Respond(p, 400, [error |-> "SuspiciousFileOperation"])
                /\ UNCHANGED <<blobs, nextUuid, updates, local>>
           ELSE /\ blobs' = blobs \cup {locator}
                /\ local' = [local EXCEPT ![p].serializer =
                                 Some([serializer EXCEPT !.instance =
                                     Some([Val(serializer.instance) EXCEPT
                                              !.file = Some(locator)])])]
                /\ nextUuid' = nextUuid + 1
                /\ UNCHANGED updates
                /\ pc' = [pc EXCEPT ![p] = "update_row"]
                /\ UNCHANGED resp
    /\ UNCHANGED records

\* The unique index on content_hash and the foreign key of referenced_file
\* refuse the row written among the rows others.
WriteRefused(others, written) ==
    \/ UniqueViolation(others, written.content_hash)
    \/ IF written.referenced_file = None THEN FALSE
       ELSE ById(others, Val(written.referenced_file)) = {}

\* instance.save(), Model._do_update: the UPDATE statement, committed on
\* its own (save_base opens no transaction for a model without parents).
\* Every column of the row with the id of the instance is overwritten with
\* the value the instance holds; the unique index on content_hash and the
\* foreign key of referenced_file refuse the write with IntegrityError.
\* When no row has that id the statement changes nothing and save() goes on
\* to insert.
UpdateSave(p) ==
    /\ pc[p] = "update_row"
    /\ LET instance == Val(Val(local[p].serializer).instance)
           others == {r \in records : r.id # instance.id}
       IN  IF ById(records, instance.id) = {}
           THEN /\ pc' = [pc EXCEPT ![p] = "update_insert"]
                /\ UNCHANGED <<records, resp>>
           ELSE IF WriteRefused(others, instance)
           THEN /\ Respond(p, 500, [error |-> "IntegrityError"])
                /\ UNCHANGED records
           ELSE /\ records' = others \cup {instance}
                /\ pc' = [pc EXCEPT ![p] = "update_response"]
                /\ UNCHANGED resp
    /\ UNCHANGED <<blobs, nextUuid, updates, local>>

\* instance.save(), Model._do_insert, when the UPDATE matched no row: the
\* INSERT statement, committed on its own.  auto_now_add stamps the
\* instance anew.  The primary key refuses the row when a row with its id
\* is stored again, the unique index and the foreign key as for the UPDATE.
UpdateInsert(p) ==
    /\ pc[p] = "update_insert"
    /\ LET serializer == Val(local[p].serializer)
           instance == Val(serializer.instance)
           written == [instance EXCEPT !.uploaded_at = Now(nextUuid)]
       IN  IF ById(records, instance.id) # {} \/ WriteRefused(records, written)
           THEN /\ Respond(p, 500, [error |-> "IntegrityError"])
                /\ UNCHANGED <<records, local>>
           ELSE /\ records' = records \cup {written}
                /\ local' = [local EXCEPT ![p].serializer =
                                 Some([serializer EXCEPT !.instance =
                                          Some(written)])]
                /\ pc' = [pc EXCEPT ![p] = "update_response"]
                /\ UNCHANGED resp
    /\ UNCHANGED <<blobs, nextUuid, updates>>

\* Response(serializer.data): the instance the request holds is serialized,
\* which reads the row it references from the table as it is by then.
UpdateResponse(p) ==
    /\ pc[p] = "update_response"
    /\ LET instance == Val(Val(local[p].serializer).instance)
       IN  Respond(p, 200, FileSerializer(instance, records))
    /\ UNCHANGED <<records, blobs, nextUuid, updates, local>>

\* The ids a request for one row may name: those handed out, and one never
\* used.
Ids == 1..MaxUuid

\* The steps of worker p serving uploads, of the files of uploads or of no
\* file, and deletes, sent with the query strings of params.
Store(p, uploads, params) ==
    \/ \E f \in {Some(u) : u \in uploads} \cup {None} : CreateBegin(p, f)
    \/ CreateLookup(p)
    \/ CreateDuplicate(p)
    \/ CreateCanonical(p)
    \/ CreateInsert(p)
    \/ CreateConflict(p)
    \/ \E id \in Ids : \E query_params \in params :
          \E from_iso \in FromIso(query_params) :
             DestroyBegin(p, id, query_params, from_iso)
    \/ DestroyOriginal(p)
    \/ DestroyDuplicate(p)
    \/ DestroyGuard(p)
    \/ DestroyFile(p)
    \/ DestroyRecord(p)
    \/ Return(p)

\* Uploads and deletes.
NextStore == \E p \in Procs : Store(p, Uploads, DetailParams)

SpecStore == Init /\ [][NextStore]_vars

\* The uploads that are stored whatever the rows are.
StoredUploads == {u \in Uploads : Accepted(u)}

\* Every request of the viewset that writes: uploads, deletes and updates.
\* The uploads are those of StoredUploads and the query strings those of
\* UpdateParams; the others are served under SpecStore.
Next ==
    \E p \in Procs :
          \/ Store(p, StoredUploads, UpdateParams)
          \/ \E id \in Ids : \E query_params \in UpdateParams :
                \E from_iso \in FromIso(query_params) :
                   \E request \in UpdateRequests :
                      UpdateBegin(p, id, query_params, from_iso, request)
          \/ UpdateValidate(p)
          \/ UpdateFile(p)
          \/ UpdateSave(p)
          \/ UpdateInsert(p)
          \/ UpdateResponse(p)

Spec == Init /\ [][Next]_vars

\* Concurrent uploads only: every worker serves one create request.
NextIngest ==
    \E p \in Procs :
        \/ \E f \in {Some(u) : u \in Uploads} \cup {None} : CreateBegin(p, f)
        \/ CreateLookup(p)
        \/ CreateDuplicate(p)
        \/ CreateCanonical(p)
        \/ CreateInsert(p)
        \/ CreateConflict(p)

SpecIngest == Init /\ [][NextIngest]_vars

\* ------------------------------------------------------------ the claims
Canonicals(rows) == {r \in rows : ~r.is_duplicate}

\* The request p has just taken the step from the position `from`.
Stepped(p, from) == pc[p] = from /\ pc'[p] # from

\* C1: in every reachable state each canonical row's reference_count is 1
\* plus the number of live duplicate rows that reference it.
C1_ReferenceCountMatchesDuplicates ==
    \A r \in Canonicals(records) :
        r.reference_count = 1 + Cardinality(Duplicates(records, r.id))

\* C2: in every reachable state no two rows carry the same non-null
\* content_hash.
C2_OneCanonicalPerDigest ==
    \A r1, r2 \in records :
        (r1.content_hash # None /\ r1.content_hash = r2.content_hash) => r1 = r2

\* C2 witness: an upload lost the race for its digest (its insert was
\* refused) and the digest has its one canonical row.
C2_Witness ==
    \E p \in Procs :
        /\ pc[p] = "conflict"
        /\ Cardinality(ByHash(records, local[p].content_hash)) = 1

\* The create requests that have completed for the digest h.
UploadsOf(h) == {p \in Procs : pc[p] = "done" /\ local[p].content_hash = h}

\* C3: once N concurrent uploads of the same bytes have all completed (and
\* nothing was deleted) there is exactly one canonical row of that digest,
\* its reference_count is N, and there are exactly N - 1 duplicate rows, all
\* referencing it.  (Stated for uploads the serializer and the storage
\* accept, in the sense of Accepted.)
C3_ConcurrentUploadsConverge ==
    (\A p \in Procs :
        IF pc[p] = "done" /\ local[p].file_obj # None
        THEN Accepted(Val(local[p].file_obj)) ELSE FALSE) =>
        \A p \in Procs :
            LET h == local[p].content_hash
                n == Cardinality(UploadsOf(h))
            IN  h # None =>
                    /\ Cardinality(ByHash(records, h)) = 1
                    /\ \A c \in ByHash(records, h) :
                          /\ ~c.is_duplicate
                          /\ c.reference_count = n
                          /\ Cardinality(Duplicates(records, c.id)) = n - 1

\* No delete request stands between removing a file and removing its row.
NoDeleteInFlight == \A p \in Procs : pc[p] # "delete_record"

\* C4: the file named by a live row is present in the storage (outside the
\* window in which a delete request has removed the file and not yet
\* committed the removal of its row).
C4_LiveRowsKeepTheirBlob ==
    NoDeleteInFlight =>
        \A r \in records : r.file # None => Val(r.file) \in blobs

\* The instance loaded by the delete request p.
Instance(p) == Val(local[p].instance)

\* The status of the response of p in the next state.
StatusAfter(p) == Val(resp'[p]).status

\* C5: a delete request on a canonical row whose reference_count it read as
\* greater than 1 is answered 403 (PermissionDenied) and changes no row and
\* no stored file.
C5_ProtectedDeleteRejected ==
    [][\A p \in Procs :
          (/\ Stepped(p, "destroy")
           /\ ~Instance(p).is_duplicate
           /\ Instance(p).reference_count > 1)
          => /\ pc'[p] = "done"
             /\ resp'[p] = Some([status |-> 403,
                                 body |-> [error |-> "PermissionDenied"]])
             /\ records' = records
             /\ blobs' = blobs]_vars

\* C5 witness: a delete of an original with a duplicate was answered 403.
C5_Witness ==
    \E p \in Procs :
        /\ pc[p] = "done"
        /\ local[p].instance # None
        /\ ~Instance(p).is_duplicate
        /\ Instance(p).reference_count > 1
        /\ Duplicates(records, Instance(p).id) # {}
        /\ Val(resp[p]).status = 403

\* C6: a delete request on a duplicate row always succeeds (204), removes
\* that row and only that row, decrements the reference_count of the row it
\* references by exactly 1 and leaves the storage unchanged.
C6_DuplicateDeleteDecrementsOnce ==
    [][\A p \in Procs :
          /\ (Stepped(p, "destroy") /\ Instance(p).is_duplicate)
             => pc'[p] = "delete_duplicate" /\ UNCHANGED <<records, blobs>>
          /\ Stepped(p, "delete_duplicate")
             => /\ StatusAfter(p) = 204
                /\ Instance(p) \in records
                /\ records' = UpdateCount(records \ {Instance(p)},
                                          Val(Instance(p).referenced_file), -1)
                /\ blobs' = blobs]_vars

\* C7: a delete request on a canonical row with reference_count 1 and no
\* duplicates succeeds: it passes the guard, removes the file from the
\* storage first (the row still there), then removes the row and answers
\* 204; afterwards neither the row nor its file exists.
C7_FreeCanonicalDeleted ==
    [][\A p \in Procs :
          /\ (/\ Stepped(p, "destroy")
              /\ ~Instance(p).is_duplicate
              /\ Instance(p).reference_count = 1)
             => /\ pc'[p] = "delete_file"
                /\ records' = records /\ blobs' = blobs
          /\ (Stepped(p, "delete_file") /\ Instance(p).reference_count = 1)
             => /\ pc'[p] = "delete_record"
                /\ Instance(p).file # None
                /\ Val(Instance(p).file) \notin blobs'
                /\ records' = records
          /\ (/\ Stepped(p, "delete_record")
              /\ Instance(p).reference_count = 1
              /\ ById(records, Instance(p).id) # {}
              /\ Duplicates(records, Instance(p).id) = {})
             => /\ StatusAfter(p) = 204
                /\ records' = records \ ById(records, Instance(p).id)
                /\ \A r \in ById(records, Instance(p).id) :
                      r.file # None /\ Val(r.file) \notin blobs'
                /\ blobs' = blobs]_vars

\* C7 witness: a delete of an original without duplicates was answered 204
\* and its row is gone.
C7_Witness ==
    \E p \in Procs :
        /\ pc[p] = "done"
        /\ local[p].instance # None
        /\ ~Instance(p).is_duplicate
        /\ Instance(p).reference_count = 1
        /\ Val(resp[p]).status = 204
        /\ ById(records, Instance(p).id) = {}

\* The ids of the rows.
IdsOf(rows) == {r.id : r \in rows}

\* The upload of the create request p.
Upload(p) == Val(local[p].file_obj)

\* The step of the upload p that stores its file: exactly one file is
\* written, under a name that was not in the storage, no row changes, and
\* the row to be inserted names that file.
StoresFile(p) ==
    /\ pc'[p] = "insert"
    /\ records' = records
    /\ \E locator \in blobs' \ blobs :
          /\ blobs' = blobs \cup {locator}
          /\ Val(Val(local'[p].serializer).instance).file = Some(locator)

\* The step of the upload p that inserts its row: one row is added, with a
\* new id, canonical, with the digest h, reference_count 1, no
\* referenced_file and the file the upload has stored; it is the response.
InsertsCanonical(p, h) ==
    \E r \in records' :
        /\ records' = records \cup {r}
        /\ r.id \notin IdsOf(records)
        /\ Cardinality(records') = Cardinality(records) + 1
        /\ ~r.is_duplicate
        /\ r.content_hash = h
        /\ r.reference_count = 1
        /\ r.referenced_file = None
        /\ r.file = Val(Val(local[p].serializer).instance).file
        /\ r.file # None
        /\ Val(r.file) \in blobs
        /\ blobs' = blobs
        /\ resp'[p] = Some([status |-> 201, body |-> FileSerializer(r, records')])

\* C8 as stated: an upload of bytes C for which no canonical row exists
\* creates one row, canonical, with content_hash the digest of C,
\* reference_count 1 and no referenced_file, and writes exactly one new
\* file; it is the response.
C8_FirstUploadCreatesCanonical ==
    [][\A p \in Procs :
          /\ (/\ Stepped(p, "canonical")
              /\ ByHash(records, Some([sha256 |-> Upload(p).content])) = {})
             => StoresFile(p)
          /\ (/\ Stepped(p, "insert")
              /\ ByHash(records, Some([sha256 |-> Upload(p).content])) = {})
             => InsertsCanonical(p, Some([sha256 |-> Upload(p).content]))]_vars

\* C8 amended: an upload the serializer and the storage accept (bytes C not
\* empty; a content type that is not blank once trimmed, has then at most
\* 100 characters and holds no null character; a file name of at most 100
\* characters that is not blank once trimmed, holds no null character and
\* has an extension of at most 82 characters) for which no canonical row
\* exists creates one row, canonical, with content_hash the digest of C,
\* reference_count 1 and no referenced_file, and writes exactly one new
\* file; it is the response.  Every other upload for which no canonical row
\* exists is answered 400 and creates no row and no file.
C8_AcceptedFirstUploadCreatesCanonical ==
    [][\A p \in Procs :
          /\ (/\ Stepped(p, "canonical")
              /\ Accepted(Upload(p))
              /\ ByHash(records, Some([sha256 |-> Upload(p).content])) = {})
             => StoresFile(p)
          /\ (/\ Stepped(p, "canonical")
              /\ ~Accepted(Upload(p)))
             => /\ pc'[p] = "done"
                /\ StatusAfter(p) = 400
                /\ records' = records
                /\ blobs' = blobs
          /\ (/\ Stepped(p, "insert")
              /\ ByHash(records, Some([sha256 |-> Upload(p).content])) = {})
             => /\ Accepted(Upload(p))
                /\ InsertsCanonical(p, Some([sha256 |-> Upload(p).content]))]_vars

\* C8 witness: an upload was answered with a canonical row that is stored.
C8_Witness ==
    \E p \in Procs :
        /\ pc[p] = "done"
        /\ local[p].file_obj # None
        /\ Val(resp[p]).status = 201
        /\ ~Val(resp[p]).body.is_duplicate
        /\ \E r \in records : FileSerializer(r, records) = Val(resp[p]).body

\* C9: an upload of bytes C whose canonical row exists (the row the lookup
\* found is live when the upload commits) creates one row: a duplicate, no
\* content_hash, reference_count 1, referencing the canonical and naming its
\* file, with the upload's own name, type and size; the canonical's
\* reference_count grows by exactly 1, nothing else changes and no file is
\* written.  The new row is the response.
C9_RepeatedUploadCreatesDuplicate ==
    [][\A p \in Procs :
          (/\ Stepped(p, "duplicate")
           /\ ById(records, Val(local[p].existing_file).id) # {})
          => \E c \in records : \E d \in records' :
                /\ c.content_hash = Some([sha256 |-> Upload(p).content])
                /\ ~c.is_duplicate
                /\ d.id \notin IdsOf(records)
                /\ d.is_duplicate
                /\ d.content_hash = None
                /\ d.reference_count = 1
                /\ d.referenced_file = Some(c.id)
                /\ d.file = c.file
                /\ d.original_filename = Upload(p).name
                /\ d.file_type = Upload(p).content_type
                /\ d.size = Len(Upload(p).content)
                /\ records' = (records \ {c})
                        \cup {[c EXCEPT !.reference_count = c.reference_count + 1], d}
                /\ blobs' = blobs
                /\ resp'[p] = Some([status |-> 201, body |-> FileSerializer(d, records')])]_vars

\* C9 witness: an upload under another name and type than the canonical's
\* was answered with a duplicate row that references the canonical.
C9_Witness ==
    \E p \in Procs : \E c \in Canonicals(records) :
        /\ pc[p] = "done"
        /\ local[p].file_obj # None
        /\ Val(resp[p]).status = 201
        /\ Val(resp[p]).body.is_duplicate
        /\ Val(resp[p]).body.referenced_file_id = Some(c.id)
        /\ Val(resp[p]).body.original_filename # c.original_filename
        /\ Val(resp[p]).body.file_type # c.file_type
        /\ c.reference_count = 2

\* C10: an upload whose canonical insert was refused by the unique index
\* still completes with 201: it returns a duplicate row that references the
\* winning canonical, whose reference_count it increments by exactly 1.
C10_ConflictIsRecovered ==
    [][\A p \in Procs :
          Stepped(p, "conflict")
          => /\ pc'[p] = "done"
             /\ StatusAfter(p) = 201
             /\ Val(resp'[p]).body.is_duplicate
             /\ \E c \in ByHash(records, local[p].content_hash) :
                   /\ Val(resp'[p]).body.referenced_file_id = Some(c.id)
                   /\ [c EXCEPT !.reference_count = c.reference_count + 1]
                          \in records']_vars

\* The files named by the rows.
FilesOf(rows) == {Val(r.file) : r \in {x \in rows : x.file # None}}

\* C11: once an upload whose canonical insert was refused has returned, the
\* storage holds no file that is not named by a live row: the file it wrote
\* under its fresh locator has been discarded.  (While an upload stands
\* between storing its file and the answer to its insert, the file it wrote
\* is not yet named by a row.)
C11_NoOrphanBlob ==
    (\A p \in Procs : pc[p] \notin {"insert", "conflict"})
    => blobs \subseteq FilesOf(records)

\* ------------------------------------------------- the reference counter
\* The table after two uploads of the same bytes: a canonical row with
\* reference_count 2 and its duplicate.
SeedUpload(stem) == CHOOSE u \in Uploads : u.name[1] = Ord(stem)

SeedRows ==
    LET a == SeedUpload("a")
        c == CanonicalRow(1, a, Val(FieldFileSave(a.name, 2)),
                 Some(compute_file_hash(a.content, 0, DefaultChunkSize).digest))
    IN  {[c EXCEPT !.reference_count = 2], DuplicateRow(3, SeedUpload("b"), c)}

InitCounter ==
    /\ records = SeedRows
    /\ blobs = FilesOf(SeedRows)
    /\ nextUuid = 4
    /\ updates = 0
    /\ pc = [p \in Procs |-> "idle"]
    /\ local = [p \in Procs |-> NoLocal]
    /\ resp = [p \in Procs |-> None]

\* Every worker serves one request on the seeded canonical: an upload of its
\* bytes (+1) or the delete of one of its duplicates (-1).
NextCounter ==
    \E p \in Procs :
        \/ \E f \in {u \in Uploads : u.content = SeedUpload("a").content} :
               CreateStart(p, Some(f))
        \/ CreateLookup(p)
        \/ CreateDuplicate(p)
        \/ \E r \in {x \in records : x.is_duplicate} :
              DestroyBegin(p, r.id, NoFilter, FALSE)
        \/ DestroyOriginal(p)
        \/ DestroyDuplicate(p)

SpecCounter == InitCounter /\ [][NextCounter]_vars

\* The requests answered with the given status.
Answered(status) ==
    {p \in Procs : pc[p] = "done" /\ Val(resp[p]).status = status}

\* C12: whatever the interleaving of the increments (uploads answered 201)
\* and decrements (deletes answered 204) on one canonical row, its stored
\* reference_count is its value before them plus the sum of their deltas.
C12_NoLostUpdate ==
    \A c \in Canonicals(records) :
        c.reference_count =
            2 + Cardinality(Answered(201)) - Cardinality(Answered(204))

\* C12 witness: two uploads both read the canonical at reference_count 2
\* before either committed, and both increments are in the stored count.
C12_Witness ==
    \E p, q \in Procs :
        /\ p # q
        /\ {p, q} \subseteq Answered(201)
        /\ Val(local[p].existing_file).reference_count = 2
        /\ Val(local[q].existing_file).reference_count = 2
        /\ \E c \in Canonicals(records) : c.reference_count = 4

\* C13: in every reachable state the referenced_file of each duplicate row
\* is the id of a live canonical row, and no canonical row has a
\* referenced_file; an upload that found a canonical which is deleted before
\* the upload commits leaves no duplicate behind.
C13_DuplicatesReferenceLiveCanonical ==
    \A r \in records :
        IF r.is_duplicate
        THEN /\ r.referenced_file # None
             /\ \E c \in records :
                   c.id = Val(r.referenced_file) /\ ~c.is_duplicate
        ELSE r.referenced_file = None

\* The reference_count of the row with id i, when it is live.
CountOf(rows, i) == {r.reference_count : r \in ById(rows, i)}

\* C14: no request leaves partial state: a duplicate row is created exactly
\* when the increment is applied, a duplicate row is removed exactly when
\* the decrement is applied, the file of a canonical is gone exactly when
\* its row is gone once the delete has completed, and a request that fails
\* leaves rows and files as they were.
C14_NoPartialState ==
    [][\A p \in Procs :
          /\ Stepped(p, "duplicate")
             => LET e == Val(local[p].existing_file).id
                IN  (\E d \in records' \ records : d.referenced_file = Some(e))
                    <=> (CountOf(records', e) = {n + 1 : n \in CountOf(records, e)}
                         /\ CountOf(records, e) # {})
          /\ Stepped(p, "delete_duplicate")
             => LET e == Val(Instance(p).referenced_file)
                IN  (Instance(p) \in records /\ Instance(p) \notin records')
                    <=> (CountOf(records', e) = {n - 1 : n \in CountOf(records, e)}
                         /\ CountOf(records, e) # {})
          /\ Stepped(p, "delete_record")
             => \A r \in ById(records, Instance(p).id) :
                   (r \notin records') <=> (Val(r.file) \notin blobs')
          /\ (pc[p] # "done" /\ pc'[p] = "done" /\ StatusAfter(p) >= 400)
             => /\ records' = records
                /\ blobs' = blobs
                /\ pc[p] = "conflict" => blobs' \subseteq FilesOf(records')]_vars

\* The create request p carries a file without bytes.
EmptyUpload(p) ==
    IF local[p].file_obj = None THEN FALSE ELSE Upload(p).content = <<>>

\* C18: a create request without a file is answered 400 and creates no row,
\* writes no file and changes no reference_count; so is a create request
\* whose file is empty, at every step of it.
C18_NoFileRejected ==
    [][\A p \in Procs :
          /\ CreateStart(p, None)
             => /\ resp'[p] = Some([status |-> 400,
                                    body |-> [error |-> "No file provided"]])
                /\ pc'[p] = "done"
                /\ records' = records
                /\ blobs' = blobs
          /\ (EmptyUpload(p) /\ pc'[p] # pc[p] /\ pc[p] # "done")
             => /\ records' = records
                /\ blobs' = blobs
                /\ pc[p] = "lookup" => pc'[p] = "canonical"
                /\ pc[p] = "canonical"
                   => pc'[p] = "done" /\ StatusAfter(p) = 400]_vars

\* C18 witness: a create request without a file and a create request with
\* an empty file were answered 400 while the table holds a canonical row.
C18_Witness ==
    \E p, q \in Procs :
        /\ pc[p] = "done"
        /\ local[p].file_obj = None
        /\ Val(resp[p]).body = [error |-> "No file provided"]
        /\ Val(resp[p]).status = 400
        /\ pc[q] = "done"
        /\ EmptyUpload(q)
        /\ Val(resp[q]).status = 400
        /\ Canonicals(records) # {}

\* C20: in every reachable state a row has a content_hash exactly when it is
\* not a duplicate and a referenced_file exactly when it is one, and the
\* reference_count of every duplicate row is 1.
C20_VariantFieldsAgree ==
    \A r \in records :
        /\ (r.content_hash # None) <=> ~r.is_duplicate
        /\ (r.referenced_file # None) <=> r.is_duplicate
        /\ r.is_duplicate => r.reference_count = 1

\* ------------------------------------------------- compute_file_hash alone
\* A worker holds an open stream (file_obj: its bytes and its read
\* position), moves the position and calls compute_file_hash on it.
RECURSIVE SeqsUpTo(_, _)
SeqsUpTo(S, n) ==
    IF n = 0 THEN {<<>>}
    ELSE LET shorter == SeqsUpTo(S, n - 1)
         IN  shorter \cup {Append(s, b) : s \in shorter, b \in S}

Contents == SeqsUpTo(1..MaxByte, MaxLen)

\* chunk_size: small sizes, so that the loop runs several times, and the
\* default.
ChunkSizes == (1..MaxChunk) \cup {DefaultChunkSize}

Stream(content, position) == [content |-> content, position |-> position]

InitHash ==
    /\ records = {}
    /\ blobs = {}
    /\ nextUuid = 1
    /\ updates = 0
    /\ pc = [p \in Procs |-> "idle"]
    /\ resp = [p \in Procs |-> None]
    /\ \E content \in Contents :
          local = [p \in Procs |->
                      IF p = 1
                      THEN [NoLocal EXCEPT !.file_obj = Some(Stream(content, 0))]
                      ELSE NoLocal]

\* file_obj.seek(position); a BytesIO may be positioned past its end.  The
\* digest a call has returned (hash_value) stays with the caller.
Seek(p, position) ==
    /\ local[p].file_obj # None
    /\ local' = [local EXCEPT ![p].file_obj =
                    Some(Stream(Val(local[p].file_obj).content, position))]
    /\ UNCHANGED <<records, blobs, nextUuid, updates, pc, resp>>

\* hash_value = compute_file_hash(file_obj, chunk_size)
HashCall(p, chunk_size) ==
    /\ local[p].file_obj # None
    /\ LET file_obj == Val(local[p].file_obj)
           h == compute_file_hash(file_obj.content, file_obj.position, chunk_size)
       IN  local' = [local EXCEPT ![p].file_obj =
                        Some(Stream(file_obj.content, h.position)),
                                  ![p].content_hash = Some(h.digest)]
    /\ UNCHANGED <<records, blobs, nextUuid, updates, pc, resp>>

NextHash ==
    \E p \in Procs :
        \/ \E position \in 0..(MaxLen + 1) : Seek(p, position)
        \/ \E chunk_size \in ChunkSizes : HashCall(p, chunk_size)

SpecHash == InitHash /\ [][NextHash]_vars

\* C15: compute_file_hash leaves the read position of the stream where it
\* was and returns the digest of the whole content from offset 0, whatever
\* the initial position and the chunk size, and so the same digest on every
\* call.
C15_HashPositionNeutral ==
    [][\A p \in Procs : \A chunk_size \in ChunkSizes :
          HashCall(p, chunk_size)
          => /\ Val(local'[p].file_obj) = Val(local[p].file_obj)
             /\ local'[p].content_hash =
                    Some(HexDigest(Val(local[p].file_obj).content))
             /\ local[p].content_hash # None
                => local'[p].content_hash = local[p].content_hash]_vars

\* C15 witness: a stream longer than every small chunk size has been hashed
\* while positioned in its middle.
C15_Witness ==
    \E p \in Procs :
        /\ local[p].file_obj # None
        /\ local[p].content_hash # None
        /\ Len(Val(local[p].file_obj).content) > MaxChunk
        /\ Val(local[p].file_obj).position > 0
        /\ Val(local[p].file_obj).position < Len(Val(local[p].file_obj).content)

\* ------------------------------------------------------- the listed rows
\* The row with its uploaded_at column (auto_now_add) set to t.
Stamped(row, t) ==
    [k \in DOMAIN row \cup {"uploaded_at"} |->
        IF k = "uploaded_at" THEN t ELSE row[k]]

ListedUpload(name, content_type, content) ==
    [name |-> name, content_type |-> content_type, content |-> content]

\* The stored rows of the listing: three canonical rows and a duplicate,
\* whose names are written character by character, with sizes 1..MaxLen
\* and upload instants on the first and last instant of a day and between.
ListedRows ==
    LET canonical(uuid, f) ==
            CanonicalRow(uuid, f, Val(FieldFileSave(f.name, uuid + 1)),
                Some(compute_file_hash(f.content, 0, DefaultChunkSize).digest))
        ab == canonical(1, ListedUpload(Text(<<"T", "E", "S", "T", ".", "t", "x", "t">>),
                                   TextPlain, <<1>>))
        ba == canonical(3, ListedUpload(Text(<<"t", "e", "s", "t", ".", "p", "d", "f">>),
                                   ApplicationPdf, <<1, 2>>))
        b == canonical(5, ListedUpload(Text(<<"o", "t", "h", "e", "r", ".", "d", "o", "c">>), TextPlain,
                                  [i \in 1..MaxLen |-> 1]))
        dup == DuplicateRow(7, ListedUpload(Text(<<"T", "e", "s", "t">>), TextPlain, <<1>>), ab)
    IN  { Stamped([ab EXCEPT !.reference_count = 2], At(1, 0)),
          Stamped(ba, At(1, DayLen - 1)),
          Stamped(b, At(MaxDay, 0)),
          Stamped(dup, At(MaxDay, 1)) }

\* The values a client sends for each parameter; None is a missing one.
\* One size_max is the Arabic-Indic digit two.
SearchParams ==
    {None, Some(<<>>), Some(Text(<<"t", "e", "s", "t">>)), Some(Text(<<"R", ".", "d">>))}
FileTypeParams == {None, Some(<<>>), Some(TextPlain), Some(Text(<<"t", "e", "x", "t">>))}
SizeMinParams ==
    {None, Some(<<>>), Some(Text(<<"2">>)), Some(Text(<<" ", "1", " ">>)), Some(Text(<<"a", "b", "c">>))}
SizeMaxParams ==
    {None, Some(<<>>), Some(<<1634>>), Some(Text(<<"+", "1", "_", "0">>)), Some(Text(<<"1", ".", "5">>))}
DateParams ==
    {None, Some(DateParam("blank", 0, 0)), Some(DateParam("text", 0, 0))}
    \cup {Some(DateParam("date", day, 0)) : day \in 0..MaxDay}
    \cup {Some(DateParam("datetime", day, tod)) : day \in 1..MaxDay, tod \in 0..DayLen}

\* The query strings of the listings: every combination of the values
\* above.
QueryParams ==
    [search : SearchParams, file_type : FileTypeParams,
     size_min : SizeMinParams, size_max : SizeMaxParams,
     uploaded_after : DateParams, uploaded_before : DateParams]

\* A query string with a size_min of one digit more than int() reads.
LongSizeParams ==
    {[NoFilter EXCEPT !.size_min =
         Some([i \in 1..(IntMaxStrDigits + 1) |-> Ord("1")])]}

InitList ==
    /\ records = ListedRows
    /\ blobs = FilesOf(ListedRows)
    /\ nextUuid = 8
    /\ updates = 0
    /\ pc = [p \in Procs |-> "idle"]
    /\ local = [p \in Procs |-> NoLocal]
    /\ resp = [p \in Procs |-> None]

\* GET /api/files/: ListModelMixin.list over get_queryset().  The listing
\* reads the committed rows and writes nothing.
List(p, query_params, from_iso) ==
    /\ pc[p] = "idle"
    /\ LET result == get_queryset(records, query_params, from_iso)
       IN  IF result.error # None
           THEN Respond(p, 400, Val(result.error))
           ELSE Respond(p, 200, result.queryset)
    /\ local' = [local EXCEPT ![p] = [query_params |-> query_params]]
    /\ UNCHANGED <<records, blobs, nextUuid, updates>>

\* Listings are served one at a time.
NextList ==
    \E p \in Procs :
        \/ /\ \A q \in Procs : pc[q] = "idle"
           /\ \/ \E query_params \in QueryParams : \E from_iso \in BOOLEAN :
                    List(p, query_params, from_iso)
              \/ \E query_params \in LongSizeParams :
                    List(p, query_params, FALSE)
        \/ Return(p)

SpecList == InitList /\ [][NextList]_vars

\* A finished listing of worker p, and its parameters.
Listed(p) == pc[p] = "done" /\ DOMAIN local[p] = {"query_params"}
Params(p) == local[p].query_params

\* A filter is supplied when its parameter is present and not empty.
SuppliedText(v) == v # None /\ Val(v) # <<>>
SuppliedType(v) == v # None /\ Val(v) # <<>>
SuppliedDate(v) == v # None /\ Val(v).form # "blank"

\* The integer a size parameter denotes, and the parameters that denote one.
IsInteger(v) == int(Val(v)) # None
\* The parameters that are an ISO date or an ISO datetime.
IsDate(v) == Val(v).form = "date" /\ Val(v).day \in 1..MaxDay
IsDatetime(v) ==
    /\ Val(v).form = "datetime"
    /\ Val(v).day \in 1..MaxDay
    /\ Val(v).tod \in 0..(DayLen - 1)

\* Every supplied size and date value of the request is valid.
ValidParams(q) ==
    /\ \A v \in {q.size_min, q.size_max} : SuppliedText(v) => IsInteger(v)
    /\ \A v \in {q.uploaded_after, q.uploaded_before} :
          SuppliedDate(v) => IsDate(v) \/ IsDatetime(v)

\* s occurs in name at some offset, letter case ignored.
OccursIn(s, name) ==
    \E k \in 0..(Len(name) - Len(s)) :
        \A j \in 1..Len(s) : Lower(name[k + j]) = Lower(s[j])

\* The first and the last instant a date bound may denote: a datetime
\* denotes its instant, a date any instant of its day.
Earliest(v) == IF IsDatetime(v) THEN At(Val(v).day, Val(v).tod) ELSE At(Val(v).day, 0)
Latest(v) ==
    IF IsDatetime(v) THEN At(Val(v).day, Val(v).tod) ELSE At(Val(v).day, DayLen - 1)

\* Row r satisfies every supplied filter of q except uploaded_before.
SatisfiesButBefore(r, q) ==
    /\ SuppliedText(q.search) => OccursIn(Val(q.search), r.original_filename)
    /\ SuppliedType(q.file_type) => r.file_type = Val(q.file_type)
    /\ SuppliedText(q.size_min) => Val(int(Val(q.size_min))) <= r.size
    /\ SuppliedText(q.size_max) => r.size <= Val(int(Val(q.size_max)))
    /\ SuppliedDate(q.uploaded_after) => Earliest(q.uploaded_after) <= r.uploaded_at

\* C16: a listing whose supplied bounds are valid returns exactly the stored
\* rows that satisfy every supplied filter: the name contains search with
\* case ignored, file_type is equal, size_min <= size <= size_max and
\* uploaded_after <= uploaded_at <= uploaded_before, the bounds included; a
\* missing filter constrains nothing.  A date given for uploaded_after
\* starts with its day; a date given for uploaded_before includes its first
\* instant and nothing after its day.
C16_ListReturnsMatchingRows ==
    \A p \in Procs :
        (Listed(p) /\ ValidParams(Params(p)))
        => LET q == Params(p)
               matching == {r \in records : SatisfiesButBefore(r, q)}
               body == Val(resp[p]).body
           IN  /\ Val(resp[p]).status = 200
               /\ IF SuppliedDate(q.uploaded_before)
                  THEN /\ body \subseteq {r \in matching :
                                            r.uploaded_at <= Latest(q.uploaded_before)}
                       /\ {r \in matching :
                              r.uploaded_at <= Earliest(q.uploaded_before)}
                              \subseteq body
                       /\ IsDatetime(q.uploaded_before)
                          => body = {r \in matching :
                                        r.uploaded_at <= Earliest(q.uploaded_before)}
                  ELSE body = matching

\* C16 witness: a listing with all five kinds of filter supplied returned
\* some rows and not all, among them a row whose size is size_min and a row
\* uploaded at the instant uploaded_before.
C16_Witness ==
    \E p \in Procs :
        /\ Listed(p)
        /\ ValidParams(Params(p))
        /\ SuppliedText(Params(p).search)
        /\ SuppliedType(Params(p).file_type)
        /\ SuppliedText(Params(p).size_min)
        /\ SuppliedText(Params(p).size_max)
        /\ SuppliedDate(Params(p).uploaded_after)
        /\ SuppliedDate(Params(p).uploaded_before)
        /\ IsDatetime(Params(p).uploaded_before)
        /\ Val(resp[p]).status = 200
        /\ Val(resp[p]).body # {}
        /\ Val(resp[p]).body # records
        /\ \E r \in Val(resp[p]).body : r.size = Val(int(Val(Params(p).size_min)))
        /\ \E r \in Val(resp[p]).body : r.uploaded_at = Latest(Params(p).uploaded_before)

\* The size and date parameters of q that were sent with a value that is no
\* integer, or no ISO date or datetime.
Offending(q) ==
    {f \in {"size_min", "size_max"} : q[f] # None /\ ~IsInteger(q[f])}
    \cup {f \in {"uploaded_after", "uploaded_before"} :
             q[f] # None /\ ~(IsDate(q[f]) \/ IsDatetime(q[f]))}

\* C17: a listing sent with a size_min or size_max that is no integer, or an
\* uploaded_after or uploaded_before that is no ISO date or datetime, is
\* answered 400 with a validation error naming such a field, and returns
\* no rows.
C17_InvalidFilterRejected ==
    \A p \in Procs :
        (Listed(p) /\ Offending(Params(p)) # {})
        => /\ Val(resp[p]).status = 400
           /\ Val(resp[p]).body.field \in Offending(Params(p))

\* C19 as stated: a delete request for an id that names no live row, never
\* created or already deleted, is answered 404 and changes no row, no count,
\* no file.
C19_UnknownIdNotFound ==
    [][\A p \in Procs : \A id \in Ids : \A q \in DetailParams :
          \A from_iso \in BOOLEAN :
             (ById(records, id) = {} /\ DestroyBegin(p, id, q, from_iso))
             => /\ resp'[p] = Some([status |-> 404, body |-> [error |-> "Not found"]])
                /\ pc'[p] = "done"
                /\ records' = records
                /\ blobs' = blobs]_vars

\* C19 amended: a delete request for an id that names no live row, never
\* created or already deleted, changes no row, no count, no file.  It is
\* answered 404, unless its query string carries a size or date filter whose
\* value is not empty and does not parse: then it is answered 400 with a
\* validation error that names such a filter.
C19_UnknownIdRejected ==
    [][\A p \in Procs : \A id \in Ids : \A q \in DetailParams :
          \A from_iso \in BOOLEAN :
             (ById(records, id) = {} /\ DestroyBegin(p, id, q, from_iso))
             => /\ IF ValidParams(q)
                   THEN resp'[p] = Some([status |-> 404,
                                         body |-> [error |-> "Not found"]])
                   ELSE /\ StatusAfter(p) = 400
                        /\ Val(resp'[p]).body.field \in Offending(q)
                /\ pc'[p] = "done"
                /\ records' = records
                /\ blobs' = blobs]_vars

\* C19 witness: a delete was answered 404 after a row had been created and
\* deleted, while other rows are stored.
C19_Witness ==
    \E p \in Procs :
        /\ pc[p] = "done"
        /\ local[p] = NoLocal
        /\ Val(resp[p]).status = 404
        /\ records # {}
        /\ \E i \in 1..(nextUuid - 1) : i \notin IdsOf(records)

\* C21: of the delete requests aimed at one duplicate row, only the one that
\* removes the row decrements the canonical; a request whose duplicate row
\* is already gone when it commits changes no reference_count and no row.
C21_RepeatedDeleteHasNoEffect ==
    [][\A p \in Procs :
          (/\ Stepped(p, "delete_duplicate")
           /\ ById(records, Instance(p).id) = {})
          => records' = records]_vars

\* C22: in every reachable state the reference_count of every canonical row
\* is at least 1.
C22_CanonicalCountPositive ==
    \A c \in Canonicals(records) : c.reference_count >= 1

\* ------------------------------------------- one request for every worker
\* A canonical row with one duplicate is stored; every worker serves one
\* request, an upload or a delete, and the requests overlap freely.
NextOnce ==
    \E p \in Procs :
        \/ \E f \in {Some(u) : u \in Uploads} \cup {None} : CreateStart(p, f)
        \/ CreateLookup(p)
        \/ CreateDuplicate(p)
        \/ CreateCanonical(p)
        \/ CreateInsert(p)
        \/ CreateConflict(p)
        \/ \E id \in Ids : \E query_params \in DetailParams :
              \E from_iso \in FromIso(query_params) :
                 DestroyBegin(p, id, query_params, from_iso)
        \/ DestroyOriginal(p)
        \/ DestroyDuplicate(p)
        \/ DestroyGuard(p)
        \/ DestroyFile(p)
        \/ DestroyRecord(p)

SpecOnce == InitCounter /\ [][NextOnce]_vars

\* The step request p is about to take writes to the canonical row r: p
\* creates a duplicate of r, having looked r up by the digest of its upload,
\* or p deletes a duplicate that references r.
Touches(p, r) ==
    \/ /\ pc[p] = "duplicate"
       /\ Val(local[p].existing_file).id = r.id
       /\ local[p].content_hash = r.content_hash
    \/ /\ pc[p] = "delete_duplicate"
       /\ Instance(p).referenced_file = Some(r.id)
       /\ Instance(p).file = r.file

\* C23: a row that stays stored keeps file, content_hash, is_duplicate,
\* referenced_file, original_filename, file_type and size as created; only
\* the reference_count of a canonical row changes, and only by a request
\* about that row's content.
C23_RowsAreImmutable ==
    [][\A r \in records : \A s \in ById(records', r.id) :
          s # r
          => /\ ~r.is_duplicate
             /\ s = [r EXCEPT !.reference_count = s.reference_count]
             /\ \E p \in Procs : pc'[p] # pc[p] /\ Touches(p, r)]_vars

\* C23 witness: the canonical row has been counted away from its stored 2
\* by an answered request while the duplicate row and a canonical row of
\* another content, created meanwhile, are stored.
C23_Witness ==
    \E c, e \in Canonicals(records) : \E d \in records :
        /\ c.content_hash # e.content_hash
        /\ c \notin SeedRows
        /\ \E s \in SeedRows : s.id = c.id
        /\ d.is_duplicate
        /\ \E p \in Procs :
              /\ pc[p] = "done"
              /\ Val(resp[p]).status \in {201, 204}
              /\ local[p].existing_file # None \/ local[p].instance # None

\* C24: a delete request on a canonical row whose stored reference_count is
\* above 1 when the request acts, whatever the count was when the request
\* loaded the row, removes neither row nor file and is answered as a
\* protected delete (403).
C24_GuardReadsStoredCount ==
    [][\A p \in Procs :
          (/\ pc[p] \in {"destroy", "delete_file", "delete_record"}
           /\ pc'[p] # pc[p]
           /\ ~Instance(p).is_duplicate
           /\ \E r \in ById(records, Instance(p).id) : r.reference_count > 1)
          => /\ records' = records
             /\ blobs' = blobs
             /\ pc'[p] = "done" => StatusAfter(p) = 403]_vars

\* ------------------------------------------- freeing a protected original
\* A canonical row with MaxDups duplicates is stored and nothing is
\* uploaded; the workers serve delete requests, one request for each
\* duplicate, any number for the canonical row.
DrainRows ==
    LET a == SeedUpload("a")
        c == CanonicalRow(1, a, Val(FieldFileSave(a.name, 2)),
                 Some(compute_file_hash(a.content, 0, DefaultChunkSize).digest))
    IN  {[c EXCEPT !.reference_count = 1 + MaxDups]}
        \cup {DuplicateRow(2 + k, SeedUpload("b"), c) : k \in 1..MaxDups}

InitDrain ==
    /\ records = DrainRows
    /\ blobs = FilesOf(DrainRows)
    /\ nextUuid = 3 + MaxDups
    /\ updates = 0
    /\ pc = [p \in Procs |-> "idle"]
    /\ local = [p \in Procs |-> NoLocal]
    /\ resp = [p \in Procs |-> None]

\* No request holds the row with id i.
NotHeld(i) ==
    \A q \in Procs : IF local[q].instance = None THEN TRUE ELSE Instance(q).id # i

\* The steps of a delete request after get_object().
DestroyStep(p) ==
    \/ DestroyOriginal(p)
    \/ DestroyDuplicate(p)
    \/ DestroyGuard(p)
    \/ DestroyFile(p)
    \/ DestroyRecord(p)

NextDrain ==
    \E p \in Procs :
        \/ \E r \in records :
              /\ r.is_duplicate => NotHeld(r.id)
              /\ DestroyBegin(p, r.id, NoFilter, FALSE)
        \/ DestroyStep(p)
        \/ Return(p)

\* A request that has started is served to its end.
SpecDrain ==
    /\ InitDrain
    /\ [][NextDrain]_vars
    /\ \A p \in Procs : WF_vars(DestroyStep(p))

\* Every duplicate has been deleted.
Drained == \A r \in records : ~r.is_duplicate

\* Request p has loaded a canonical row with reference_count 1 and has not
\* acted yet.
LoadedFree(p) ==
    IF pc[p] = "destroy"
    THEN ~Instance(p).is_duplicate /\ Instance(p).reference_count = 1
    ELSE FALSE

\* Request p was answered 204 and neither rows nor files are left.
DeletedAll(p) ==
    IF pc[p] = "done"
    THEN Val(resp[p]).status = 204 /\ records = {} /\ blobs = {}
    ELSE FALSE

\* C25: once the duplicates of a canonical row have been deleted its
\* reference_count is 1, and a delete request that loads it then is served
\* to the end with 204, the row and its file removed.
C25_DrainedCanonicalIsDeleted ==
    /\ [](Drained => \A c \in Canonicals(records) : c.reference_count = 1)
    /\ \A p \in Procs : LoadedFree(p) ~> DeletedAll(p)

\* C25 witness: a delete request that loaded the canonical row with
\* reference_count 1, after its MaxDups duplicates were deleted, was
\* answered 204 and neither rows nor files are left.
C25_Witness ==
    \E p \in Procs :
        /\ pc[p] = "done"
        /\ local[p].instance # None
        /\ ~Instance(p).is_duplicate
        /\ Instance(p).reference_count = 1
        /\ Val(resp[p]).status = 204
        /\ records = {}
        /\ blobs = {}

\* The canonical rows whose delete request has been answered 204 and is
\* still held by its worker.
DeletedCanonicals ==
    {Instance(q) : q \in {w \in Procs :
        IF pc[w] = "done" /\ local[w].instance # None
        THEN ~Instance(w).is_duplicate /\ Val(resp[w]).status = 204
        ELSE FALSE}}

\* C26 as stated: the delete of a canonical row frees its digest: when the
\* delete is answered 204 no row holds the digest, the lookup of an upload
\* of the same bytes then finds nothing, and the upload that finds nothing
\* creates a canonical row with a new id, that digest, reference_count 1
\* and a newly written file, and is answered 201 with it.
C26_DeletedDigestIsReusable ==
    [][\A p \in Procs :
          /\ (Stepped(p, "delete_record") /\ StatusAfter(p) = 204)
             => /\ ById(records', Instance(p).id) = {}
                /\ ByHash(records', Instance(p).content_hash) = {}
          /\ \A gone \in DeletedCanonicals :
                (/\ local[p].content_hash = gone.content_hash
                 /\ ByHash(records, gone.content_hash) = {})
                => /\ Stepped(p, "lookup") => pc'[p] = "canonical"
                   /\ Stepped(p, "canonical") => StoresFile(p)
                   /\ Stepped(p, "insert")
                      => /\ InsertsCanonical(p, gone.content_hash)
                         /\ Val(resp'[p]).body.id # gone.id]_vars

\* C26 amended: the delete of a canonical row frees its digest: when the
\* delete is answered 204 no row holds the digest, the lookup of an upload
\* of the same bytes then finds nothing, and the upload that finds nothing,
\* when the serializer and the storage accept it (a content type that is
\* not blank once trimmed, has then at most 100 characters and holds no
\* null character; a file name of at most 100 characters that is not blank
\* once trimmed, holds no null character and has an extension of at most 82
\* characters), creates a canonical row with a new id, that digest,
\* reference_count 1 and a newly written file, and is answered 201 with
\* it; when they do not, it is answered 400 and creates no row and no file.
C26_DeletedDigestAcceptsUpload ==
    [][\A p \in Procs :
          /\ (Stepped(p, "delete_record") /\ StatusAfter(p) = 204)
             => /\ ById(records', Instance(p).id) = {}
                /\ ByHash(records', Instance(p).content_hash) = {}
          /\ \A gone \in DeletedCanonicals :
                (/\ local[p].content_hash = gone.content_hash
                 /\ ByHash(records, gone.content_hash) = {})
                => /\ Stepped(p, "lookup") => pc'[p] = "canonical"
                   /\ (Stepped(p, "canonical") /\ Accepted(Upload(p)))
                      => StoresFile(p)
                   /\ (Stepped(p, "canonical") /\ ~Accepted(Upload(p)))
                      => /\ pc'[p] = "done"
                         /\ StatusAfter(p) = 400
                         /\ records' = records
                         /\ blobs' = blobs
                   /\ Stepped(p, "insert")
                      => /\ InsertsCanonical(p, gone.content_hash)
                         /\ Val(resp'[p]).body.id # gone.id]_vars

\* C26 witness: a canonical row was deleted (204) and an upload of the same
\* bytes was then answered 201 with a stored canonical row of another id.
C26_Witness ==
    \E p \in Procs : \E gone \in DeletedCanonicals :
        /\ pc[p] = "done"
        /\ local[p].file_obj # None
        /\ local[p].content_hash = gone.content_hash
        /\ Val(resp[p]).status = 201
        /\ ~Val(resp[p]).body.is_duplicate
        /\ Val(resp[p]).body.id # gone.id
        /\ \E r \in records : FileSerializer(r, records) = Val(resp[p]).body

\* ------------------------------------------------------ requests complete
\* The steps of a request after its first: the worker thread that serves a
\* request runs it to its response.
Serve(p) ==
    \/ CreateLookup(p)
    \/ CreateDuplicate(p)
    \/ CreateCanonical(p)
    \/ CreateInsert(p)
    \/ CreateConflict(p)
    \/ DestroyStep(p)

SpecOnceFair == SpecOnce /\ \A p \in Procs : WF_vars(Serve(p))

\* Request p is being served, and has been answered.
Serving(p) == pc[p] \notin {"idle", "done"}
Completed(p) == IF pc[p] = "done" THEN resp[p] # None ELSE FALSE

\* C27: every upload and every delete is answered: a request being served
\* always has a step it can take, whatever the other requests do, an upload
\* runs its lookup once and its conflict handling at most once, straight to
\* the response, and under fair scheduling every request completes with a
\* response.
C27_RequestsComplete ==
    /\ [](\A p \in Procs : Serving(p) => ENABLED Serve(p))
    /\ [][\A p \in Procs :
             /\ Stepped(p, "conflict") => pc'[p] = "done"
             /\ (pc'[p] = "lookup" /\ pc[p] # "lookup") => pc[p] = "idle"]_vars
    /\ \A p \in Procs : Serving(p) ~> Completed(p)

\* C27 witness: an upload that ran into the insert conflict has been
\* answered, and so has the upload it raced.
C27_Witness ==
    \E p, q \in Procs :
        /\ p # q
        /\ Completed(p)
        /\ Completed(q)
        /\ Val(resp[p]).status = 500
        /\ Val(resp[p]).body = [error |-> "TransactionManagementError"]
        /\ Val(resp[q]).status = 201
        /\ local[p].content_hash = local[q].content_hash
====
